---- MODULE Spec2Model ----
(***************************************************************************)
(* Daily collection tracker: the record store (dailyCollections), the      *)
(* branch manager's Entry page, the Admin page and the client-side         *)
(* aggregation (summary totals, lowest performers).                        *)
(***************************************************************************)
EXTENDS Integers, Sequences, FiniteSets, TLC

\* ------------------------------------------------------------------ bounds
MaxDocs   == 2        \* documents ever created in dailyCollections
MaxWrites == 3        \* accepted writes (addDoc, updateDoc, deleteDoc) in one run

\* --------------------------------------------------------------- constants
Sessions == {"m1", "m2"}      \* two browser sessions of the branch manager
Execs    == {"e1", "e2"}      \* executives of the manager's branch
BranchId == "b1"              \* Entry props.branchId
OwnerEmail == "manager"       \* Entry props.userEmail
AdminEditor == "admin (Admin)" \* userEmail + ' (Admin)'
Today    == 1                 \* new Date().toISOString().split('T')[0]
DocIds   == 1..MaxDocs
NoId     == 0                 \* null docId / editingId
NoExec   == "none"            \* saving === null

\* ------------------------------------------------------- parseInt(x) || 0
\* A form field is the text of an <input type="number">, a sequence of
\* characters.
DigitChars == {"0", "1", "2", "3", "4", "5", "6", "7", "8", "9"}

DigitVal(c) ==
  CASE c = "0" -> 0 [] c = "1" -> 1 [] c = "2" -> 2 [] c = "3" -> 3
    [] c = "4" -> 4 [] c = "5" -> 5 [] c = "6" -> 6 [] c = "7" -> 7
    [] c = "8" -> 8 [] c = "9" -> 9

\* number of leading digit characters of s
RECURSIVE DigitRun(_)
DigitRun(s) ==
  IF s = <<>> \/ Head(s) \notin DigitChars THEN 0 ELSE 1 + DigitRun(Tail(s))

\* value of a sequence of digit characters, most significant first
RECURSIVE DigitsValue(_, _)
DigitsValue(s, acc) ==
  IF s = <<>> THEN acc ELSE DigitsValue(Tail(s), 10 * acc + DigitVal(Head(s)))

\* JavaScript parseInt(text): optional sign, then the longest run of digits;
\* NaN when there is no digit.
parseInt(text) ==
  LET neg  == text # <<>> /\ Head(text) = "-"
      body == IF text # <<>> /\ Head(text) \in {"-", "+"} THEN Tail(text) ELSE text
      n    == DigitRun(body)
  IN IF n = 0 THEN [nan |-> TRUE, val |-> 0]
     ELSE [nan |-> FALSE,
           val |-> (IF neg THEN -1 ELSE 1) * DigitsValue(SubSeq(body, 1, n), 0)]

\* parseInt(text) || 0 : NaN and 0 are falsy
ParseOrZero(text) ==
  LET r == parseInt(text) IN IF r.nan \/ r.val = 0 THEN 0 ELSE r.val

\* texts the user can leave in a number field
Form(t, a, c, r) == [target |-> t, ach |-> a, cash |-> c, remarks |-> r]

\* the forms a save is tried with: unset fields, a decimal, a negative
\* number, a changed remark
Forms ==
  { Form(<<>>, <<>>, <<"0">>, ""),
    Form(<<"5">>, <<"1", ".", "5">>, <<"2">>, ""),
    Form(<<"5">>, <<"1", ".", "5">>, <<"2">>, "late"),
    Form(<<"8">>, <<"1", ".", "5">>, <<"2">>, ""),
    Form(<<"5">>, <<>>, <<"0">>, ""),
    Form(<<"-", "1">>, <<>>, <<"0">>, "") }

\* ------------------------------------------------------------ edit history
EditRec(f, old, new, by) ==
  [field |-> f, oldValue |-> old, newValue |-> new, editedBy |-> by]

\* mutant of OwnerHistory: a change is logged when the new value is positive
OwnerHistoryGatedOnNew(existing, newTarget, newAch, newCash) ==
  LET h0 == existing.editHistory
      h1 == IF existing.targetQty # newTarget /\ newTarget > 0
            THEN Append(h0, EditRec("Target", existing.targetQty, newTarget, OwnerEmail))
            ELSE h0
      h2 == IF existing.achQty # newAch /\ newAch > 0
            THEN Append(h1, EditRec("ACH", existing.achQty, newAch, OwnerEmail))
            ELSE h1
      h3 == IF existing.cashQty # newCash /\ newCash > 0
            THEN Append(h2, EditRec("Cash", existing.cashQty, newCash, OwnerEmail))
            ELSE h2
  IN h3

\* Entry.handleSave, lines 142-170: a record per changed field whose
\* previous value is positive
OwnerHistory(existing, newTarget, newAch, newCash) ==
  LET h0 == existing.editHistory
      h1 == IF existing.targetQty # newTarget /\ existing.targetQty > 0
            THEN Append(h0, EditRec("Target", existing.targetQty, newTarget, OwnerEmail))
            ELSE h0
      h2 == IF existing.achQty # newAch /\ existing.achQty > 0
            THEN Append(h1, EditRec("ACH", existing.achQty, newAch, OwnerEmail))
            ELSE h1
      h3 == IF existing.cashQty # newCash /\ existing.cashQty > 0
            THEN Append(h2, EditRec("Cash", existing.cashQty, newCash, OwnerEmail))
            ELSE h2
  IN h3

\* mutant of AdminHistory: the owner path's "previous value > 0" gate copied
\* into the admin path
AdminHistoryGated(row, newTarget, newAch, newCash) ==
  LET h0 == row.editHistory
      h1 == IF row.targetQty # newTarget /\ row.targetQty > 0
            THEN Append(h0, EditRec("Target", row.targetQty, newTarget, AdminEditor))
            ELSE h0
      h2 == IF row.achQty # newAch /\ row.achQty > 0
            THEN Append(h1, EditRec("ACH", row.achQty, newAch, AdminEditor))
            ELSE h1
      h3 == IF row.cashQty # newCash /\ row.cashQty > 0
            THEN Append(h2, EditRec("Cash", row.cashQty, newCash, AdminEditor))
            ELSE h2
  IN h3

\* Admin.handleSaveEdit, lines 137-165: a record per changed field
AdminHistory(row, newTarget, newAch, newCash) ==
  LET h0 == row.editHistory
      h1 == IF row.targetQty # newTarget
            THEN Append(h0, EditRec("Target", row.targetQty, newTarget, AdminEditor))
            ELSE h0
      h2 == IF row.achQty # newAch
            THEN Append(h1, EditRec("ACH", row.achQty, newAch, AdminEditor))
            ELSE h1
      h3 == IF row.cashQty # newCash
            THEN Append(h2, EditRec("Cash", row.cashQty, newCash, AdminEditor))
            ELSE h2
  IN h3

\* --------------------------------------------------------------- the state
VARIABLES
  store,        \* dailyCollections: document id -> document
  nextId,       \* the id addDoc gives the next document
  writes,       \* number of writes the store has accepted
  mPhase,       \* per manager session: "closed" | "ready"
  mDate,        \* per session: Entry's date state, fixed at mount
  mForm,        \* per session: formData has an item for every executive
  mEntries,     \* per session: Entry's entries map, executive -> EntryData
  mSaving,      \* per session: Entry's saving state
  mError,       \* per session: message.execId while message.type is 'error'
  aPhase,       \* Admin page: "closed" | "ready"
  aStart,       \* Admin startDate
  aEnd,         \* Admin endDate
  aCollections, \* Admin collections: sequence of CollectionRow
  aEditingId,   \* Admin editingId
  aAlert,       \* Admin: the text of the last alert() the page raised
  todayData,    \* Dashboard todayData: today's entries of the branch
  summary,      \* Dashboard: the totals a render computes from todayData
  last3DaysData, \* Admin last3DaysData: entries of the last three days
  lowestPerformers, \* Admin: the ranking a render computes from last3DaysData
  shownPercent, \* the percent a table cell or stat card hands to the colour helpers
  badge,        \* the classes getAchievementColor / getAchievementBgColor returned
  summaries,    \* the BranchSummary list handed to formatSummaryReport
  report,       \* the message formatSummaryReport returned
  entryNote,    \* the EntryNotification handed to sendEntryNotification
  notification, \* the message sendEntryNotification built, and what it returned
  branches,     \* Branches: document id -> document
  statusUpdate, \* what the last sendBranchStatusUpdate built and returned
  aBranchList,  \* Admin (Dashboard.tsx) branchList: [id, name], sorted by name
  selectedBranch, \* Admin (Dashboard.tsx) selectedBranch: "all" or a branch id
  exported,     \* the file the last handleExport handed to exportToExcel
  generated,    \* the name the last generateFilename call returned
  executives,   \* executives: document id -> document
  bBranches,    \* Branches page: branches, as last fetched or edited
  bMessage,     \* Branches page: message.text
  xExecutives,  \* Executives page: executives, as last fetched or edited
  xMessage,     \* Executives page: message.text
  sendingTelegram, \* Admin (Dashboard.tsx) sendingTelegram
  telegram,     \* the last sendTelegramMessage call: its request and its result
  mPending,     \* per session: the saves of Entry.handleSave that await the store
  aBuild,       \* the file the Admin page is built from: "Admin.tsx" | "Dashboard.tsx"
  aLoading,     \* Admin loading
  aMaster,      \* Admin fetchMasterData: "none" | "pending" | "ok" | "failed"
  aInFlight,    \* Admin fetchCollections calls that await the store, in call order
  aLastIssued,  \* the window of the latest fetchCollections call, <<>> before any
  aFetchError,  \* a fetchCollections call has been rejected
  user,         \* App user: the signed-in email, or NoUser
  branchInfo,   \* App branchInfo: the branch id, or NoBranch
  loading,      \* App loading
  branchError,  \* App branchError
  lookups,      \* App: the branch lookups that await the store, by email
  path          \* the location the router is at

storeVars == <<store, nextId, writes>>
mgrVars   == <<mPhase, mDate, mForm, mEntries, mSaving, mError>>
adminVars == <<aPhase, aStart, aEnd, aCollections, aEditingId, aAlert>>
aggVars   == <<todayData, summary, last3DaysData, lowestPerformers>>
badgeVars == <<shownPercent, badge>>
reportVars == <<summaries, report, entryNote, notification>>
statusVars == <<branches, statusUpdate>>
exportVars == <<aBranchList, selectedBranch, exported, generated>>
masterVars == <<executives, bBranches, bMessage, xExecutives, xMessage>>
fetchVars == <<aBuild, aLoading, aMaster, aInFlight, aLastIssued, aFetchError>>
routeVars == <<user, branchInfo, loading, branchError, lookups, path>>
pageVars  == <<sendingTelegram, telegram, mPending, fetchVars, routeVars>>
utilVars  == <<badgeVars, reportVars, statusVars, exportVars, masterVars, pageVars>>
vars == <<store, nextId, writes, mPhase, mDate, mForm, mEntries, mSaving, mError,
          aPhase, aStart, aEnd, aCollections, aEditingId, aAlert,
          todayData, summary, last3DaysData, lowestPerformers, utilVars>>

EmptyMap == [x \in {} |-> 0]

\* ----------------------------------------------------------------- queries
MaxOf(S) == CHOOSE x \in S : \A y \in S : y <= x
MinOf(S) == CHOOSE x \in S : \A y \in S : x <= y

\* mutant of EntryQuery: today's entries of every branch
EntryQueryAnyBranch(b, d) == { i \in DOMAIN store : store[i].date = d }

\* where('branchId','==',b), where('date','==',d)
EntryQuery(b, d) == { i \in DOMAIN store : store[i].branchId = b /\ store[i].date = d }

\* Entry.fetchData lines 79-96: entryMap.set(data.executiveId, ...) for each
\* document in result order (document id ascending); a later document for
\* the same executive replaces the earlier one
EntryDataOf(i) ==
  [docId |-> i, executiveId |-> store[i].executiveId,
   targetQty |-> store[i].targetQty, achQty |-> store[i].achQty,
   cashQty |-> store[i].cashQty, remarks |-> store[i].remarks,
   editHistory |-> store[i].editHistory]

EntryMapOf(ids) ==
  LET es == { store[i].executiveId : i \in ids }
  IN [e \in es |-> EntryDataOf(MaxOf({ i \in ids : store[i].executiveId = e }))]

\* where('date','>=',s), where('date','<=',e), orderBy('date','desc')
RowOf(i) ==
  [id |-> i, date |-> store[i].date, branchId |-> store[i].branchId,
   executiveId |-> store[i].executiveId,
   targetQty |-> store[i].targetQty, achQty |-> store[i].achQty,
   cashQty |-> store[i].cashQty, remarks |-> store[i].remarks,
   editHistory |-> store[i].editHistory]

RECURSIVE RowsDesc(_)
RowsDesc(ids) ==
  IF ids = {} THEN <<>>
  ELSE LET d == MaxOf({ store[i].date : i \in ids })
           i == MinOf({ j \in ids : store[j].date = d })
       IN <<RowOf(i)>> \o RowsDesc(ids \ {i})

WindowQuery(s, e) == RowsDesc({ i \in DOMAIN store : store[i].date >= s /\ store[i].date <= e })

\* -------------------------------------------------------------------- Init
NotRendered == [shown |-> FALSE]

\* no page is open
PagesClosed ==
  /\ mPhase = [s \in Sessions |-> "closed"]
  /\ mDate = [s \in Sessions |-> Today]
  /\ mForm = [s \in Sessions |-> FALSE]
  /\ mEntries = [s \in Sessions |-> EmptyMap]
  /\ mSaving = [s \in Sessions |-> NoExec]
  /\ mError = [s \in Sessions |-> NoExec]
  /\ aPhase = "closed"
  /\ aStart = Today
  /\ aEnd = Today
  /\ aCollections = <<>>
  /\ aEditingId = NoId
  /\ aAlert = ""

PagesInit ==
  /\ store = EmptyMap
  /\ nextId = 1
  /\ writes = 0
  /\ PagesClosed

AggIdle ==
  /\ todayData = <<>>
  /\ summary = NotRendered
  /\ last3DaysData = <<>>
  /\ lowestPerformers = NotRendered

\* nothing rendered, sent or exported yet
BadgeIdle ==
  /\ shownPercent = [num |-> 0, den |-> 1]
  /\ badge = NotRendered

NoEntryNote == [branchName |-> "", executiveName |-> "", date |-> Today,
                targetQty |-> 0, achQty |-> 0, cashQty |-> 0, isUpdate |-> FALSE]

ReportIdle ==
  /\ summaries = <<>>
  /\ report = NotRendered
  /\ entryNote = NoEntryNote
  /\ notification = NotRendered

\* the name the executives map gives an executive id
ExecName(e) == <<"name", e>>

\* the manager's branch and its executives
HomeBranches == [b \in {BranchId} |-> [branchName |-> "Agrabad"]]
HomeExecutives == [e \in Execs |-> [branchId |-> BranchId, name |-> ExecName(e)]]

NotCalled == [called |-> FALSE]

StatusIdle ==
  /\ branches = HomeBranches
  /\ statusUpdate = NotCalled

NotDone == [done |-> FALSE]

ExportIdle ==
  /\ aBranchList = <<>>
  /\ selectedBranch = "all"
  /\ exported = NotDone
  /\ generated = NotDone

\* the Branches and Executives pages are closed
MasterPagesClosed ==
  /\ bBranches = <<>>
  /\ bMessage = ""
  /\ xExecutives = <<>>
  /\ xMessage = ""

MasterIdle ==
  /\ executives = HomeExecutives
  /\ MasterPagesClosed

\* no request of the Admin page is under way
NoUser == "nobody"
NoBranch == "none"

\* App before the first auth callback, useState initialisers
RouteIdle ==
  /\ user = NoUser
  /\ branchInfo = NoBranch
  /\ loading = TRUE
  /\ branchError = FALSE
  /\ lookups = <<>>
  /\ path = "/login"

PageIdle ==
  /\ sendingTelegram = FALSE
  /\ telegram = NotCalled
  /\ mPending = [s \in Sessions |-> {}]
  /\ aBuild = "Admin.tsx"
  /\ aLoading = TRUE
  /\ aMaster = "none"
  /\ aInFlight = <<>>
  /\ aLastIssued = <<>>
  /\ aFetchError = FALSE
  /\ RouteIdle

UtilIdle == BadgeIdle /\ ReportIdle /\ StatusIdle /\ ExportIdle /\ MasterIdle /\ PageIdle

Init == PagesInit /\ AggIdle /\ UtilIdle

\* ---------------------------------------------------------- Entry (manager)
\* mounting the Entry page: state initialisers and the fetchData effect
FetchData(s, ok) ==
  /\ mPhase' = [mPhase EXCEPT ![s] = "ready"]
  /\ mDate' = [mDate EXCEPT ![s] = Today]
  /\ mSaving' = [mSaving EXCEPT ![s] = NoExec]
  /\ mError' = [mError EXCEPT ![s] = NoExec]
  /\ IF ok
       THEN /\ mEntries' = [mEntries EXCEPT ![s] = EntryMapOf(EntryQuery(BranchId, Today))]
            /\ mForm' = [mForm EXCEPT ![s] = TRUE]
       ELSE \* the entries query rejects after setExecutives: catch, maps stay empty
            /\ mEntries' = [mEntries EXCEPT ![s] = EmptyMap]
            /\ mForm' = [mForm EXCEPT ![s] = FALSE]
  /\ UNCHANGED <<storeVars, adminVars, aggVars, utilVars>>

\* mutant of NewDoc: the first save of a target logged as an edit from 0
NewDocLogged(e, d, t, a, c, r) ==
  [branchId |-> BranchId, executiveId |-> e, date |-> d,
   targetQty |-> t, achQty |-> a, cashQty |-> c, remarks |-> r,
   editHistory |-> IF t # 0 THEN <<EditRec("Target", 0, t, OwnerEmail)>> ELSE <<>>]

\* the document addDoc stores, Entry.handleSave lines 199-209
NewDoc(e, d, t, a, c, r) ==
  [branchId |-> BranchId, executiveId |-> e, date |-> d,
   targetQty |-> t, achQty |-> a, cashQty |-> c, remarks |-> r,
   editHistory |-> <<>>]

\* mutant of HandleSave: a rejected update drops the entry from the page's map
HandleSaveForgetsOnFailure(s, e, form, ok) ==
  /\ mPhase[s] = "ready"
  /\ mSaving[s] # e
  /\ IF ~mForm[s]
       THEN \* formData.get(execId) is undefined: return after setSaving(execId)
            \* and setMessage({type: ''})
            /\ mSaving' = [mSaving EXCEPT ![s] = e]
            /\ mError' = [mError EXCEPT ![s] = NoExec]
            /\ UNCHANGED <<storeVars, mPhase, mDate, mForm, mEntries, adminVars, aggVars, utilVars>>
       ELSE
         LET newTarget == ParseOrZero(form.target)
             newAch    == ParseOrZero(form.ach)
             newCash   == ParseOrZero(form.cash)
         IN
         /\ mSaving' = [mSaving EXCEPT ![s] = NoExec]
         /\ IF e \in DOMAIN mEntries[s]
              THEN
                LET existing   == mEntries[s][e]
                    newHistory == OwnerHistory(existing, newTarget, newAch, newCash)
                IN
                /\ IF ok /\ existing.docId \in DOMAIN store
                     THEN /\ writes < MaxWrites
                          /\ writes' = writes + 1
                          /\ store' = [store EXCEPT ![existing.docId] =
                                 [@ EXCEPT !.branchId = BranchId, !.executiveId = e,
                                           !.date = mDate[s],
                                           !.targetQty = newTarget, !.achQty = newAch,
                                           !.cashQty = newCash, !.remarks = form.remarks,
                                           !.editHistory = newHistory]]
                          /\ mEntries' = [mEntries EXCEPT ![s][e] =
                                 [@ EXCEPT !.targetQty = newTarget, !.achQty = newAch,
                                           !.cashQty = newCash, !.remarks = form.remarks,
                                           !.editHistory = newHistory]]
                          /\ mError' = [mError EXCEPT ![s] = NoExec]
                     ELSE /\ mError' = [mError EXCEPT ![s] = e]
                          /\ mEntries' = [mEntries EXCEPT ![s] =
                                 [x \in DOMAIN mEntries[s] \ {e} |-> mEntries[s][x]]]
                          /\ UNCHANGED <<store, writes>>
                /\ UNCHANGED nextId
              ELSE
                IF ok
                  THEN /\ nextId <= MaxDocs
                       /\ writes < MaxWrites
                       /\ writes' = writes + 1
                       /\ store' = [i \in DOMAIN store \cup {nextId} |->
                                      IF i = nextId
                                        THEN NewDoc(e, mDate[s], newTarget, newAch, newCash, form.remarks)
                                        ELSE store[i]]
                       /\ nextId' = nextId + 1
                       /\ mEntries' = [mEntries EXCEPT ![s] =
                              [x \in DOMAIN mEntries[s] \cup {e} |->
                                 IF x = e
                                   THEN [docId |-> nextId, executiveId |-> e,
                                         targetQty |-> newTarget, achQty |-> newAch,
                                         cashQty |-> newCash, remarks |-> form.remarks,
                                         editHistory |-> <<>>]
                                   ELSE mEntries[s][x]]]
                       /\ mError' = [mError EXCEPT ![s] = NoExec]
                  ELSE \* addDoc rejects: catch, 'Failed to save'
                       /\ mError' = [mError EXCEPT ![s] = e]
                       /\ UNCHANGED <<store, nextId, writes, mEntries>>
         /\ UNCHANGED <<mPhase, mDate, mForm, adminVars, aggVars, utilVars>>

\* Entry.handleSave(execId) with the form the user left for that executive
HandleSave(s, e, form, ok) ==
  /\ mPhase[s] = "ready"
  /\ mSaving[s] # e
  /\ IF ~mForm[s]
       THEN \* formData.get(execId) is undefined: return after setSaving(execId)
            \* and setMessage({type: ''})
            /\ mSaving' = [mSaving EXCEPT ![s] = e]
            /\ mError' = [mError EXCEPT ![s] = NoExec]
            /\ UNCHANGED <<storeVars, mPhase, mDate, mForm, mEntries, adminVars, aggVars, utilVars>>
       ELSE
         LET newTarget == ParseOrZero(form.target)
             newAch    == ParseOrZero(form.ach)
             newCash   == ParseOrZero(form.cash)
         IN
         /\ mSaving' = [mSaving EXCEPT ![s] = NoExec]
         /\ IF e \in DOMAIN mEntries[s]
              THEN
                LET existing   == mEntries[s][e]
                    newHistory == OwnerHistory(existing, newTarget, newAch, newCash)
                IN
                /\ IF ok /\ existing.docId \in DOMAIN store
                     THEN /\ writes < MaxWrites
                          /\ writes' = writes + 1
                          /\ store' = [store EXCEPT ![existing.docId] =
                                 [@ EXCEPT !.branchId = BranchId, !.executiveId = e,
                                           !.date = mDate[s],
                                           !.targetQty = newTarget, !.achQty = newAch,
                                           !.cashQty = newCash, !.remarks = form.remarks,
                                           !.editHistory = newHistory]]
                          /\ mEntries' = [mEntries EXCEPT ![s][e] =
                                 [@ EXCEPT !.targetQty = newTarget, !.achQty = newAch,
                                           !.cashQty = newCash, !.remarks = form.remarks,
                                           !.editHistory = newHistory]]
                          /\ mError' = [mError EXCEPT ![s] = NoExec]
                     ELSE \* updateDoc rejects: catch, 'Failed to save'
                          /\ mError' = [mError EXCEPT ![s] = e]
                          /\ UNCHANGED <<store, writes, mEntries>>
                /\ UNCHANGED nextId
              ELSE
                IF ok
                  THEN /\ nextId <= MaxDocs
                       /\ writes < MaxWrites
                       /\ writes' = writes + 1
                       /\ store' = [i \in DOMAIN store \cup {nextId} |->
                                      IF i = nextId
                                        THEN NewDoc(e, mDate[s], newTarget, newAch, newCash, form.remarks)
                                        ELSE store[i]]
                       /\ nextId' = nextId + 1
                       /\ mEntries' = [mEntries EXCEPT ![s] =
                              [x \in DOMAIN mEntries[s] \cup {e} |->
                                 IF x = e
                                   THEN [docId |-> nextId, executiveId |-> e,
                                         targetQty |-> newTarget, achQty |-> newAch,
                                         cashQty |-> newCash, remarks |-> form.remarks,
                                         editHistory |-> <<>>]
                                   ELSE mEntries[s][x]]]
                       /\ mError' = [mError EXCEPT ![s] = NoExec]
                  ELSE \* addDoc rejects: catch, 'Failed to save'
                       /\ mError' = [mError EXCEPT ![s] = e]
                       /\ UNCHANGED <<store, nextId, writes, mEntries>>
         /\ UNCHANGED <<mPhase, mDate, mForm, adminVars, aggVars, utilVars>>

\* -------------------------------------------------------------------- Admin
\* mounting the Admin page: startDate = endDate = today, fetchMasterData and
\* the first fetchCollections
AdminMount(ok) ==
  /\ aPhase' = "ready"
  /\ aStart' = Today
  /\ aEnd' = Today
  /\ aEditingId' = NoId
  /\ aAlert' = ""
  /\ aCollections' = IF ok THEN WindowQuery(Today, Today) ELSE <<>>
  /\ UNCHANGED <<storeVars, mgrVars, aggVars, utilVars>>

\* Admin.handleEdit(row): the Edit button of a row that is not being edited
HandleEdit(k) ==
  /\ aPhase = "ready"
  /\ k \in 1..Len(aCollections)
  /\ aCollections[k].id # aEditingId
  /\ aEditingId' = aCollections[k].id
  /\ UNCHANGED <<storeVars, mgrVars, aPhase, aStart, aEnd, aCollections, aAlert, aggVars, utilVars>>

HandleCancelEdit ==
  /\ aPhase = "ready"
  /\ aEditingId # NoId
  /\ aEditingId' = NoId
  /\ UNCHANGED <<storeVars, mgrVars, aPhase, aStart, aEnd, aCollections, aAlert, aggVars, utilVars>>

\* mutant of HandleSaveEdit: the store rejects an update made from a row
\* that no longer matches the stored entry
HandleSaveEditIfCurrent(k, form, ok) ==
  /\ aPhase = "ready"
  /\ k \in 1..Len(aCollections)
  /\ aCollections[k].id = aEditingId
  /\ LET row        == aCollections[k]
         newTarget  == ParseOrZero(form.target)
         newAch     == ParseOrZero(form.ach)
         newCash    == ParseOrZero(form.cash)
         newHistory == AdminHistory(row, newTarget, newAch, newCash)
     IN
     /\ IF ok /\ row.id \in DOMAIN store /\ row = RowOf(row.id)
          THEN /\ writes < MaxWrites
               /\ writes' = writes + 1
               /\ store' = [store EXCEPT ![row.id] =
                      [@ EXCEPT !.targetQty = newTarget, !.achQty = newAch,
                                !.cashQty = newCash, !.remarks = form.remarks,
                                !.editHistory = newHistory]]
               /\ aCollections' = [j \in 1..Len(aCollections) |->
                      IF aCollections[j].id = row.id
                        THEN [aCollections[j] EXCEPT
                                !.targetQty = newTarget, !.achQty = newAch,
                                !.cashQty = newCash, !.remarks = form.remarks,
                                !.editHistory = newHistory]
                        ELSE aCollections[j]]
               /\ aEditingId' = NoId
               /\ aAlert' = aAlert
          ELSE /\ aAlert' = "Failed to update entry"
               /\ UNCHANGED <<store, writes, aCollections, aEditingId>>
  /\ UNCHANGED <<nextId, mgrVars, aPhase, aStart, aEnd, aggVars, utilVars>>

\* Admin.handleSaveEdit(row) with the edit form the admin left: the Save
\* button of the row being edited
HandleSaveEdit(k, form, ok) ==
  /\ aPhase = "ready"
  /\ k \in 1..Len(aCollections)
  /\ aCollections[k].id = aEditingId
  /\ LET row        == aCollections[k]
         newTarget  == ParseOrZero(form.target)
         newAch     == ParseOrZero(form.ach)
         newCash    == ParseOrZero(form.cash)
         newHistory == AdminHistory(row, newTarget, newAch, newCash)
     IN
     /\ IF ok /\ row.id \in DOMAIN store
          THEN /\ writes < MaxWrites
               /\ writes' = writes + 1
               /\ store' = [store EXCEPT ![row.id] =
                      [@ EXCEPT !.targetQty = newTarget, !.achQty = newAch,
                                !.cashQty = newCash, !.remarks = form.remarks,
                                !.editHistory = newHistory]]
               /\ aCollections' = [j \in 1..Len(aCollections) |->
                      IF aCollections[j].id = row.id
                        THEN [aCollections[j] EXCEPT
                                !.targetQty = newTarget, !.achQty = newAch,
                                !.cashQty = newCash, !.remarks = form.remarks,
                                !.editHistory = newHistory]
                        ELSE aCollections[j]]
               /\ aEditingId' = NoId
               /\ aAlert' = aAlert
          ELSE \* updateDoc rejects: catch, alert
               /\ aAlert' = "Failed to update entry"
               /\ UNCHANGED <<store, writes, aCollections, aEditingId>>
  /\ UNCHANGED <<nextId, mgrVars, aPhase, aStart, aEnd, aggVars, utilVars>>

\* collections.filter(c => c.id !== id): the rows other than dropId, in order
RECURSIVE FilterRows(_, _)
FilterRows(rows, dropId) ==
  IF rows = <<>> THEN <<>>
  ELSE IF Head(rows).id = dropId THEN FilterRows(Tail(rows), dropId)
       ELSE <<Head(rows)>> \o FilterRows(Tail(rows), dropId)

\* mutant of HandleDelete: the row is dropped from the table before the
\* store answers and a rejection goes unreported
HandleDeleteOptimistic(k, ok) ==
  /\ aPhase = "ready"
  /\ k \in 1..Len(aCollections)
  /\ aCollections[k].id # aEditingId
  /\ LET id == aCollections[k].id IN
     /\ aCollections' = FilterRows(aCollections, id)
     /\ aAlert' = aAlert
     /\ IF ok
          THEN /\ writes < MaxWrites
               /\ writes' = writes + 1
               /\ store' = [i \in DOMAIN store \ {id} |-> store[i]]
          ELSE UNCHANGED <<store, writes>>
  /\ UNCHANGED <<nextId, mgrVars, aPhase, aStart, aEnd, aEditingId, aggVars, utilVars>>

\* Admin.handleDelete(id), confirmed by the admin: the Delete button of a
\* row that is not being edited
HandleDelete(k, ok) ==
  /\ aPhase = "ready"
  /\ k \in 1..Len(aCollections)
  /\ aCollections[k].id # aEditingId
  /\ LET id == aCollections[k].id IN
     IF ok
       THEN /\ writes < MaxWrites
            /\ writes' = writes + 1
            /\ store' = [i \in DOMAIN store \ {id} |-> store[i]]
            /\ aCollections' = FilterRows(aCollections, id)
            /\ aAlert' = aAlert
       ELSE \* deleteDoc rejects: catch, alert
            /\ aAlert' = "Failed to delete entry"
            /\ UNCHANGED <<store, writes, aCollections>>
  /\ UNCHANGED <<nextId, mgrVars, aPhase, aStart, aEnd, aEditingId, aggVars, utilVars>>

\* ------------------------------------------------------------ specification
\* the store takes every write it is sent; a read may fail
OwnerNext(S) ==
  \/ \E s \in S, ok \in BOOLEAN : FetchData(s, ok)
  \/ \E s \in S, e \in Execs, form \in Forms : HandleSave(s, e, form, TRUE)

AdminNext ==
  \/ \E ok \in BOOLEAN : AdminMount(ok)
  \/ \E k \in 1..MaxDocs : HandleEdit(k)
  \/ HandleCancelEdit
  \/ \E k \in 1..MaxDocs, form \in Forms : HandleSaveEdit(k, form, TRUE)
  \/ \E k \in 1..MaxDocs : HandleDelete(k, TRUE)

\* one manager session and the admin
Next == OwnerNext({"m1"}) \/ AdminNext

Spec == Init /\ [][Next]_vars

\* two sessions of the manager, no admin
NextOwners == OwnerNext(Sessions)

SpecOwners == Init /\ [][NextOwners]_vars

\* the forms an editor corrects an entry with
EditForms == { f \in Forms : f.target \in {<<"5">>, <<"8">>} /\ f.remarks = "" }

\* one manager session and the admin, with a store that may reject a write
NextEditors ==
  \/ \E ok \in BOOLEAN : FetchData("m1", ok)
  \/ \E e \in Execs, form \in EditForms, ok \in BOOLEAN : HandleSave("m1", e, form, ok)
  \/ \E ok \in BOOLEAN : AdminMount(ok)
  \/ \E k \in 1..MaxDocs : HandleEdit(k)
  \/ HandleCancelEdit
  \/ \E k \in 1..MaxDocs, form \in EditForms, ok \in BOOLEAN : HandleSaveEdit(k, form, ok)
  \/ \E k \in 1..MaxDocs, ok \in BOOLEAN : HandleDelete(k, ok)

SpecEditors == Init /\ [][NextEditors]_vars

TypeOK ==
  /\ DOMAIN store \subseteq DocIds
  /\ nextId \in 1..(MaxDocs + 1)
  /\ writes \in 0..MaxWrites

\* ------------------------------------------------------- steps and helpers
IsPrefix(a, b) == Len(a) <= Len(b) /\ SubSeq(b, 1, Len(a)) = a

Suffix(a, b) == SubSeq(b, Len(a) + 1, Len(b))

TrackedFields == <<"Target", "ACH", "Cash">>

FieldValue(rec, f) ==
  CASE f = "Target" -> rec.targetQty
    [] f = "ACH"    -> rec.achQty
    [] f = "Cash"   -> rec.cashQty

SameFigures(x, y) ==
  x.targetQty = y.targetQty /\ x.achQty = y.achQty /\ x.cashQty = y.cashQty

RowWithId(rows, id) == rows[CHOOSE k \in 1..Len(rows) : rows[k].id = id]

\* records of history h that are about field f
RecordsOf(h, f) == SelectSeq(h, LAMBDA r : r.field = f)

\* positions of rs keep the order Target, ACH, Cash
FieldRank(f) == CASE f = "Target" -> 1 [] f = "ACH" -> 2 [] f = "Cash" -> 3

InFieldOrder(rs) ==
  \A i, j \in 1..Len(rs) : i < j => FieldRank(rs[i].field) < FieldRank(rs[j].field)

\* a step in which addDoc created document nextId
CreateStep == nextId' = nextId + 1

\* a step in which the admin's handleSaveEdit wrote the row being edited
AdminSaveStep == aEditingId # NoId /\ aEditingId' = NoId /\ writes' = writes + 1

\* a step in which session s wrote document id through updateDoc from its
\* entry for executive e
OwnerUpdateStep(s, e, id) ==
  /\ writes' = writes + 1
  /\ nextId' = nextId
  /\ adminVars' = adminVars
  /\ mPhase[s] = "ready"
  /\ e \in DOMAIN mEntries[s]
  /\ mEntries[s][e].docId = id
  /\ id \in DOMAIN store /\ id \in DOMAIN store'
  /\ store'[id].executiveId = e
  /\ mEntries'[s][e].editHistory = store'[id].editHistory
  /\ SameFigures(mEntries'[s][e], store'[id])
  /\ mEntries'[s][e].remarks = store'[id].remarks
  /\ \A n \in Sessions \ {s} : mEntries'[n] = mEntries[n]

\* ------------------------------------------------------------ aggregation
MaxRows == 2          \* rows drawn freely for todayData / last3DaysData
MaxPad  == 11         \* further executives, one row each, in last3DaysData
TopN    == 10         \* .slice(0, 10)

\* (x / y) * 100 is kept as the exact fraction num / den
Percent(ach, target) == [num |-> ach * 100, den |-> target]
ZeroPercent == [num |-> 0, den |-> 1]

\* a.avgPercent - b.avgPercent < 0, for positive denominators
PercentLess(p, q) == p.num * q.den < q.num * p.den
PercentEq(p, q)   == p.num * q.den = q.num * p.den

\* todayData.reduce((sum, d) => sum + d.<field>, 0)
RECURSIVE ReduceSum(_, _, _)
ReduceSum(rows, f, sum) ==
  IF rows = <<>> THEN sum
  ELSE ReduceSum(Tail(rows), f, sum + FieldValue(Head(rows), f))

\* Dashboard lines 73-78
Totals(rows) ==
  LET totalTarget == ReduceSum(rows, "Target", 0)
      totalAch    == ReduceSum(rows, "ACH", 0)
      totalCash   == ReduceSum(rows, "Cash", 0)
  IN [shown |-> TRUE,
      totalTarget |-> totalTarget, totalAch |-> totalAch, totalCash |-> totalCash,
      balance |-> totalTarget - totalAch,
      achievementPercent |-> IF totalTarget > 0 THEN Percent(totalAch, totalTarget)
                             ELSE ZeroPercent]

\* execStats.get(key) || fresh item, then execStats.set(key, ...): a Map keeps
\* its keys in the order of their first insertion
StatIndex(stats, key) ==
  IF \E k \in 1..Len(stats) : stats[k].key = key
    THEN CHOOSE k \in 1..Len(stats) : stats[k].key = key
    ELSE 0

\* mutant of Accumulate: the totals are replaced by the row's figures
AccumulateLastRow(stats, row) ==
  LET k    == StatIndex(stats, row.executiveId)
      days == IF k = 0 THEN 0 ELSE stats[k].days
      item == [key |-> row.executiveId, name |-> row.executiveName,
               totalTarget |-> row.targetQty, totalAch |-> row.achQty,
               days |-> days + 1]
  IN IF k = 0 THEN Append(stats, item) ELSE [stats EXCEPT ![k] = item]

Accumulate(stats, row) ==
  LET k       == StatIndex(stats, row.executiveId)
      current == IF k = 0 THEN [totalTarget |-> 0, totalAch |-> 0, days |-> 0]
                 ELSE stats[k]
      item    == [key |-> row.executiveId, name |-> row.executiveName,
                  totalTarget |-> current.totalTarget + row.targetQty,
                  totalAch |-> current.totalAch + row.achQty,
                  days |-> current.days + 1]
  IN IF k = 0 THEN Append(stats, item) ELSE [stats EXCEPT ![k] = item]

\* last3DaysData.forEach(row => ...)
RECURSIVE ExecStats(_, _)
ExecStats(rows, stats) ==
  IF rows = <<>> THEN stats ELSE ExecStats(Tail(rows), Accumulate(stats, Head(rows)))

\* mutant of Eligible: >= for >
EligibleNonNegative(e) == e.totalTarget >= 0

\* .filter(e => e.totalTarget > 0)
Eligible(e) == e.totalTarget > 0

\* .map(e => ({...e, avgPercent: (e.totalAch / e.totalTarget) * 100}))
WithAvgPercent(e) ==
  [name |-> e.name, totalTarget |-> e.totalTarget, totalAch |-> e.totalAch,
   days |-> e.days, avgPercent |-> Percent(e.totalAch, e.totalTarget)]

RECURSIVE MapAvgPercent(_)
MapAvgPercent(es) ==
  IF es = <<>> THEN <<>> ELSE <<WithAvgPercent(Head(es))>> \o MapAvgPercent(Tail(es))

\* mutant of InsertSorted: x goes in front of the items it ties with
RECURSIVE InsertBeforeEqual(_, _)
InsertBeforeEqual(sorted, x) ==
  IF sorted = <<>> THEN <<x>>
  ELSE IF ~PercentLess(Head(sorted).avgPercent, x.avgPercent) THEN <<x>> \o sorted
       ELSE <<Head(sorted)>> \o InsertBeforeEqual(Tail(sorted), x)

\* Array.prototype.sort((a, b) => a.avgPercent - b.avgPercent) is stable: x
\* goes behind every item that does not compare greater than x
RECURSIVE InsertSorted(_, _)
InsertSorted(sorted, x) ==
  IF sorted = <<>> THEN <<x>>
  ELSE IF PercentLess(x.avgPercent, Head(sorted).avgPercent) THEN <<x>> \o sorted
       ELSE <<Head(sorted)>> \o InsertSorted(Tail(sorted), x)

RECURSIVE SortByAvgPercent(_, _)
SortByAvgPercent(items, sorted) ==
  IF items = <<>> THEN sorted
  ELSE SortByAvgPercent(Tail(items), InsertSorted(sorted, Head(items)))

\* Admin getLowestPerformers, lines 453-478
GetLowestPerformers(rows) ==
  LET stats      == ExecStats(rows, <<>>)
      performers == SortByAvgPercent(MapAvgPercent(SelectSeq(stats, Eligible)), <<>>)
  IN SubSeq(performers, 1, IF Len(performers) < TopN THEN Len(performers) ELSE TopN)

\* figures a stored entry can hold
TargetValues == {-1, 0, 1, 2}
AchValues    == {0, 1}
CashValues   == {0, 2}

RECURSIVE SeqsUpTo(_, _)
SeqsUpTo(S, n) ==
  IF n = 0 THEN { <<>> }
  ELSE LET shorter == SeqsUpTo(S, n - 1)
       IN shorter \cup { Append(q, x) : q \in { r \in shorter : Len(r) = n - 1 }, x \in S }

TodayRows ==
  [executiveId : Execs, targetQty : TargetValues, achQty : AchValues,
   cashQty : CashValues]

\* one row of an executive outside the freely drawn rows; the profile sets
\* the figures: all equal (ties), all without target, or falling percentages
PadNames == <<"p01", "p02", "p03", "p04", "p05", "p06", "p07", "p08", "p09",
             "p10", "p11", "p12", "p13">>
PadExec(k) == PadNames[k]

PadRow(k, profile) ==
  [executiveId |-> PadExec(k), executiveName |-> ExecName(PadExec(k)),
   targetQty |-> CASE profile = "ties" -> 2 [] profile = "none" -> 0
                   [] profile = "falling" -> k,
   achQty |-> CASE profile = "ties" -> 1 [] profile = "none" -> 0
                [] profile = "falling" -> 1]

Pad(n, profile) == [k \in 1..n |-> PadRow(k, profile)]

RankRows ==
  { [executiveId |-> e, executiveName |-> ExecName(e), targetQty |-> t, achQty |-> a] :
      e \in Execs, t \in TargetValues, a \in AchValues }

PadSizes == {0, MaxPad - 2, MaxPad}
Profiles == {"ties", "none", "falling"}

\* the Dashboard has loaded todayData; a render computes the totals
InitSummary ==
  /\ PagesInit
  /\ todayData \in SeqsUpTo(TodayRows, MaxRows)
  /\ summary = NotRendered
  /\ last3DaysData = <<>>
  /\ lowestPerformers = NotRendered
  /\ UtilIdle

RenderDashboard ==
  /\ summary' = Totals(todayData)
  /\ UNCHANGED <<storeVars, mgrVars, adminVars, todayData, last3DaysData, lowestPerformers, utilVars>>

SpecSummary == InitSummary /\ [][RenderDashboard]_vars

\* the Admin page has loaded last3DaysData; a render computes the ranking
InitRank ==
  /\ PagesInit
  /\ todayData = <<>>
  /\ summary = NotRendered
  /\ \E n \in PadSizes, profile \in Profiles, free \in SeqsUpTo(RankRows, MaxRows) :
       last3DaysData \in { Pad(n, profile) \o free, free \o Pad(n, profile) }
  /\ lowestPerformers = NotRendered
  /\ UtilIdle

RenderLowestPerformers ==
  /\ lowestPerformers' = [shown |-> TRUE, list |-> GetLowestPerformers(last3DaysData)]
  /\ UNCHANGED <<storeVars, mgrVars, adminVars, todayData, summary, last3DaysData, utilVars>>

SpecRank == InitRank /\ [][RenderLowestPerformers]_vars

\* ------------------------------------------------------------------ claims

\* C1: after any sequence of owner saves, also from two sessions that each
\* loaded the page before the other saved, the store holds at most one
\* DailyEntry per (executiveId, date).
OneEntryPerExecutiveAndDate ==
  \A i, j \in DOMAIN store :
    (store[i].executiveId = store[j].executiveId /\ store[i].date = store[j].date)
      => i = j

\* C2: every save that updates an existing DailyEntry leaves the stored
\* editHistory with the previously stored editHistory as a prefix, also when
\* the editor saves from a copy read before another editor's write.
HistoryOnlyAppended ==
  [][\A id \in DOMAIN store \cap DOMAIN store' :
        IsPrefix(store[id].editHistory, store'[id].editHistory)]_vars

\* C3: admin handleSaveEdit writes the history of the entry it was given (the
\* row as the admin page holds it) followed by exactly one EditRecord
\* {field, oldValue = the entry's value, newValue = submitted value} for each
\* of Target, ACH, Cash whose entry value and submitted value differ, in that
\* order; an equal field adds nothing and a change from 0 is logged.
AdminAppendsRecordPerChangedField ==
  [][AdminSaveStep =>
       LET row   == RowWithId(aCollections, aEditingId)
           new   == store'[aEditingId]
           added == Suffix(row.editHistory, new.editHistory)
       IN /\ IsPrefix(row.editHistory, new.editHistory)
          /\ InFieldOrder(added)
          /\ \A k \in 1..Len(added) : added[k].field \in {"Target", "ACH", "Cash"}
          /\ \A k \in 1..3 :
               LET f  == TrackedFields[k]
                   rs == RecordsOf(added, f)
               IN IF FieldValue(row, f) # FieldValue(new, f)
                    THEN /\ Len(rs) = 1
                         /\ rs[1].oldValue = FieldValue(row, f)
                         /\ rs[1].newValue = FieldValue(new, f)
                    ELSE rs = <<>>]_vars

\* C3 witness: an admin save changed all three fields of an entry whose
\* figures were all 0, and the three records were stored in field order
AdminLoggedThreeFromZero ==
  \E id \in DOMAIN store :
    /\ Len(store[id].editHistory) = 3
    /\ \A k \in 1..3 :
         /\ store[id].editHistory[k].field = TrackedFields[k]
         /\ store[id].editHistory[k].oldValue = 0
         /\ store[id].editHistory[k].newValue = FieldValue(store[id], TrackedFields[k])
         /\ store[id].editHistory[k].editedBy = AdminEditor

\* C4: owner handleSave on an existing entry appends an EditRecord for a
\* field if and only if the submitted value differs from the entry's value and
\* the previous value is nonzero.
OwnerLogsIffChangedFromNonzero ==
  [][\A s \in Sessions, e \in Execs, id \in DocIds :
       OwnerUpdateStep(s, e, id) =>
         LET existing == mEntries[s][e]
             new      == store'[id]
             added    == Suffix(existing.editHistory, new.editHistory)
         IN /\ IsPrefix(existing.editHistory, new.editHistory)
            /\ \A k \in 1..3 :
                 LET f == TrackedFields[k]
                 IN (RecordsOf(added, f) # <<>>)
                      <=> (FieldValue(existing, f) # FieldValue(new, f)
                           /\ FieldValue(existing, f) # 0)]_vars

\* C5: creating a DailyEntry stores an empty editHistory, and a save (owner or
\* admin) whose submitted target, achieved and cash equal those of the entry
\* being saved, so that at most the remark changes, writes that entry's
\* editHistory unchanged.
RemarkAndCreationNotLogged ==
  [][/\ CreateStep => store'[nextId].editHistory = <<>>
     /\ AdminSaveStep =>
          LET row == RowWithId(aCollections, aEditingId)
          IN SameFigures(row, store'[aEditingId])
               => store'[aEditingId].editHistory = row.editHistory
     /\ \A s \in Sessions, e \in Execs, id \in DocIds :
          (OwnerUpdateStep(s, e, id) /\ SameFigures(mEntries[s][e], store'[id]))
            => store'[id].editHistory = mEntries[s][e].editHistory]_vars

\* C5 witness: an entry created with nonzero figures has an empty history
\* after the admin changed only its remark (the owner's copy still has the
\* remark it was created with)
RemarkChangedHistoryEmpty ==
  \E id \in DOMAIN store :
    /\ store[id].editHistory = <<>>
    /\ store[id].targetQty # 0
    /\ store[id].remarks = "late"
    /\ \E k \in 1..Len(aCollections) :
         aCollections[k].id = id /\ aCollections[k].remarks = "late"
    /\ \E s \in Sessions :
         /\ store[id].executiveId \in DOMAIN mEntries[s]
         /\ mEntries[s][store[id].executiveId].docId = id
         /\ mEntries[s][store[id].executiveId].remarks = ""
         /\ SameFigures(mEntries[s][store[id].executiveId], store[id])

\* C6: in every stored DailyEntry target, achieved and cash are non-negative
\* integers.
FiguresNonNegative ==
  \A id \in DOMAIN store :
    /\ store[id].targetQty \in Nat
    /\ store[id].achQty \in Nat
    /\ store[id].cashQty \in Nat

\* sum of field f over the rows at the positions in I
RECURSIVE SumAt(_, _, _)
SumAt(rows, f, I) ==
  IF I = {} THEN 0
  ELSE LET i == CHOOSE x \in I : TRUE
       IN FieldValue(rows[i], f) + SumAt(rows, f, I \ {i})

\* C7: the summary's totalTarget, totalAchieved and totalCash are the sums
\* over all entries, balance = totalTarget - totalAchieved, and
\* achievementPercent = 0 when totalTarget = 0, otherwise
\* 100 * totalAchieved / totalTarget.
SummaryIsSumsAndRatio ==
  summary.shown =>
    LET all == DOMAIN todayData
        T   == SumAt(todayData, "Target", all)
        A   == SumAt(todayData, "ACH", all)
    IN /\ summary.totalTarget = T
       /\ summary.totalAch = A
       /\ summary.totalCash = SumAt(todayData, "Cash", all)
       /\ summary.balance = T - A
       /\ IF T = 0 THEN summary.achievementPercent.num = 0
          ELSE PercentEq(summary.achievementPercent, Percent(A, T))

\* positions of the window's entries of the executive named name
EntriesOf(name) ==
  { i \in DOMAIN last3DaysData : last3DaysData[i].executiveName = name }

WindowTarget(name) == SumAt(last3DaysData, "Target", EntriesOf(name))
WindowAch(name)    == SumAt(last3DaysData, "ACH", EntriesOf(name))
WindowNames  == { last3DaysData[i].executiveName : i \in DOMAIN last3DaysData }
FirstEntry(name) == CHOOSE i \in EntriesOf(name) : \A j \in EntriesOf(name) : i <= j
Ranked == lowestPerformers.list
RankedNames == { Ranked[k].name : k \in DOMAIN Ranked }

\* C8: the ranking never contains an executive whose cumulative target over
\* the window's entries is 0.
NoZeroTargetRanked ==
  lowestPerformers.shown =>
    \A k \in DOMAIN Ranked : WindowTarget(Ranked[k].name) # 0

\* C8 witness: a ranking was computed from a window in which an executive
\* has entries with nonzero targets that add up to 0
RankedBesideZeroTarget ==
  /\ lowestPerformers.shown
  /\ Ranked # <<>>
  /\ \E n \in WindowNames :
       /\ WindowTarget(n) = 0
       /\ \E i \in EntriesOf(n) : last3DaysData[i].targetQty # 0

\* C9: the ranking is sorted non-decreasing by avgPercent, has at most TopN
\* items, consists of the TopN eligible executives (cumulative target > 0)
\* with the smallest avgPercent, and executives with equal avgPercent are
\* ordered by their first appearance in the input.
EligibleNames == { n \in WindowNames : WindowTarget(n) > 0 }
WindowPercent(n) == Percent(WindowAch(n), WindowTarget(n))

RankingSortedStableTopN ==
  lowestPerformers.shown =>
    /\ Len(Ranked) <= TopN
    /\ Len(Ranked) = IF Cardinality(EligibleNames) < TopN
                       THEN Cardinality(EligibleNames) ELSE TopN
    /\ RankedNames \subseteq EligibleNames
    /\ \A i, j \in DOMAIN Ranked :
         i < j =>
           /\ Ranked[i].name # Ranked[j].name
           /\ ~PercentLess(Ranked[j].avgPercent, Ranked[i].avgPercent)
           /\ PercentEq(Ranked[i].avgPercent, Ranked[j].avgPercent)
                => FirstEntry(Ranked[i].name) < FirstEntry(Ranked[j].name)
    /\ \A n \in EligibleNames \ RankedNames, k \in DOMAIN Ranked :
         /\ ~PercentLess(WindowPercent(n), Ranked[k].avgPercent)
         /\ PercentEq(WindowPercent(n), Ranked[k].avgPercent)
              => FirstEntry(Ranked[k].name) < FirstEntry(n)

\* C9 witness: more than TopN executives are eligible, the ranking holds TopN
\* of them, two ranked executives tie, and sorting moved an executive in
\* front of one that appears earlier in the input
RankingCutTiedReordered ==
  /\ lowestPerformers.shown
  /\ Cardinality(EligibleNames) > TopN
  /\ Len(Ranked) = TopN
  /\ \E i, j \in DOMAIN Ranked :
       i < j /\ PercentEq(Ranked[i].avgPercent, Ranked[j].avgPercent)
  /\ \E i, j \in DOMAIN Ranked :
       i < j /\ FirstEntry(Ranked[j].name) < FirstEntry(Ranked[i].name)

\* C10: for each ranked executive avgPercent = 100 * (sum of achieved over the
\* executive's entries in the window) / (sum of target over those entries),
\* and each entry of the window counts for exactly one executive.
RECURSIVE SumDays(_)
SumDays(ps) == IF ps = <<>> THEN 0 ELSE Head(ps).days + SumDays(Tail(ps))

AvgPercentIsRatioOfSums ==
  lowestPerformers.shown =>
    /\ \A k \in DOMAIN Ranked :
         LET n == Ranked[k].name
         IN /\ Ranked[k].totalTarget = WindowTarget(n)
            /\ Ranked[k].totalAch = WindowAch(n)
            /\ Ranked[k].days = Cardinality(EntriesOf(n))
            /\ PercentEq(Ranked[k].avgPercent, Percent(WindowAch(n), WindowTarget(n)))
    /\ RankedNames = WindowNames => SumDays(Ranked) = Len(last3DaysData)

\* C10 witness: a ranked executive with entries (target 1, achieved 1) and
\* (target 2, achieved 0): ratio of sums 100/3, mean of the daily percentages 50
RatioOfSumsNotMeanOfRatios ==
  /\ lowestPerformers.shown
  /\ \E k \in DOMAIN Ranked :
       /\ Ranked[k].days = 2
       /\ Ranked[k].totalTarget = 3
       /\ Ranked[k].totalAch = 1
       /\ PercentEq(Ranked[k].avgPercent, [num |-> 100, den |-> 3])
       /\ \E i, j \in EntriesOf(Ranked[k].name) :
            /\ last3DaysData[i].targetQty = 1 /\ last3DaysData[i].achQty = 1
            /\ last3DaysData[j].targetQty = 2 /\ last3DaysData[j].achQty = 0

\* ------------------------------------------------------- colour thresholds
MaxQty == 30          \* largest achieved / target figure behind a shown percent

\* percent < n and percent <= n for the exact fraction num / den, den > 0
PercentBelow(p, n)  == p.num < n * p.den
PercentAtMost(p, n) == p.num <= n * p.den

\* StatCard.getAchievementColor
getAchievementColor(percent) ==
  IF PercentBelow(percent, 70) THEN "text-red-600"
  ELSE IF PercentAtMost(percent, 90) THEN "text-yellow-600"
  ELSE "text-green-600"

\* mutant of getAchievementBgColor: 90 itself counted as high
getAchievementBgColorOpen(percent) ==
  IF PercentBelow(percent, 70) THEN "bg-red-100 text-red-800"
  ELSE IF PercentBelow(percent, 90) THEN "bg-yellow-100 text-yellow-800"
  ELSE "bg-green-100 text-green-800"

\* StatCard.getAchievementBgColor
getAchievementBgColor(percent) ==
  IF PercentBelow(percent, 70) THEN "bg-red-100 text-red-800"
  ELSE IF PercentAtMost(percent, 90) THEN "bg-yellow-100 text-yellow-800"
  ELSE "bg-green-100 text-green-800"

\* the percents a cell can show: (achQty / targetQty) * 100 for a positive
\* target, 0 otherwise
ShownPercents ==
  { Percent(a, t) : a \in (-1)..MaxQty, t \in 1..MaxQty } \cup { ZeroPercent }

\* a cell is about to be rendered with some percent
InitBadge ==
  /\ PagesInit
  /\ AggIdle
  /\ PageIdle
  /\ shownPercent \in ShownPercents
  /\ badge = NotRendered
  /\ ReportIdle
  /\ StatusIdle
  /\ ExportIdle
  /\ MasterIdle

\* Dashboard lines 109 and 147: the stat card and the row badge of one percent
RenderBadge ==
  /\ badge' = [shown |-> TRUE,
               color |-> getAchievementColor(shownPercent),
               bg |-> getAchievementBgColor(shownPercent)]
  /\ UNCHANGED <<storeVars, mgrVars, adminVars, aggVars, pageVars, shownPercent, reportVars, statusVars, exportVars, masterVars>>

SpecBadge == InitBadge /\ [][RenderBadge]_vars

\* C11: every percent p is classed low (red) when p < 70, medium (yellow)
\* when 70 <= p <= 90 and high (green) when p > 90, and getAchievementColor
\* and getAchievementBgColor give the same class for every p.
ColourClassIsThreeWay ==
  badge.shown =>
    LET n == shownPercent.num
        d == shownPercent.den
    IN /\ n < 70 * d =>
            badge.color = "text-red-600" /\ badge.bg = "bg-red-100 text-red-800"
       /\ (70 * d <= n /\ n <= 90 * d) =>
            badge.color = "text-yellow-600" /\ badge.bg = "bg-yellow-100 text-yellow-800"
       /\ n > 90 * d =>
            badge.color = "text-green-600" /\ badge.bg = "bg-green-100 text-green-800"

\* C11 witness: a cell showing exactly 90 percent was rendered yellow by both
\* helpers
NinetyRenderedMedium ==
  /\ badge.shown
  /\ shownPercent.num = 90 * shownPercent.den
  /\ badge.color = "text-yellow-600"
  /\ badge.bg = "bg-yellow-100 text-yellow-800"

\* ---------------------------------------------------------------- reports
MaxBranches == 2      \* branch summaries in one report

\* x.toFixed(digits) for the exact fraction x = num / den, den > 0: the
\* nearest multiple of 10^-digits, halves away from zero, kept as the integer
\* scaled = value * 10^digits
Pow10(digits) == CASE digits = 0 -> 1 [] digits = 1 -> 10

ToFixed(x, digits) ==
  LET mag == (IF x.num < 0 THEN -x.num ELSE x.num) * Pow10(digits)
      q   == (2 * mag + x.den) \div (2 * x.den)
  IN [scaled |-> IF x.num < 0 THEN -q ELSE q, digits |-> digits]

\* the literal '0' of the zero-target branch
FixedZero == [scaled |-> 0, digits |-> 0]

\* Number(text) >= n
NumberAtLeast(fixed, n) == fixed.scaled >= n * Pow10(fixed.digits)

\* Number(percent) >= 90 ? green : Number(percent) >= 70 ? yellow : red
\* (telegram.ts lines 58, 95, 178); the circles are named by their colour
StatusEmoji(fixed) ==
  IF NumberAtLeast(fixed, 90) THEN "green"
  ELSE IF NumberAtLeast(fixed, 70) THEN "yellow"
  ELSE "red"

\* branch names and their localeCompare order
BranchNames == <<"Agrabad", "Banani", "Comilla", "Unknown">>
NameRank(name) == CHOOSE k \in 1..Len(BranchNames) : BranchNames[k] = name

\* [...summaries].sort((a, b) => a.branchName.localeCompare(b.branchName)):
\* stable, x goes behind every item whose name is not greater
RECURSIVE InsertByName(_, _)
InsertByName(sorted, x) ==
  IF sorted = <<>> THEN <<x>>
  ELSE IF NameRank(x.branchName) < NameRank(Head(sorted).branchName) THEN <<x>> \o sorted
       ELSE <<Head(sorted)>> \o InsertByName(Tail(sorted), x)

RECURSIVE SortByName(_, _)
SortByName(items, sorted) ==
  IF items = <<>> THEN sorted
  ELSE SortByName(Tail(items), InsertByName(sorted, Head(items)))

\* entered.reduce((sum, s) => sum + s.<field>, 0)
RECURSIVE SumField(_, _, _)
SumField(items, f, sum) ==
  IF items = <<>> THEN sum
  ELSE SumField(Tail(items), f, sum + Head(items)[f])

\* one line of the "Branches with Entry" section, telegram.ts lines 56-60
EnteredLine(s) ==
  LET percent == IF s.totalTarget > 0
                   THEN ToFixed(Percent(s.totalAch, s.totalTarget), 0)
                   ELSE FixedZero
  IN [emoji |-> StatusEmoji(percent), branchName |-> s.branchName,
      totalAch |-> s.totalAch, totalTarget |-> s.totalTarget, percent |-> percent]

RECURSIVE EnteredLines(_)
EnteredLines(ss) ==
  IF ss = <<>> THEN <<>> ELSE <<EnteredLine(Head(ss))>> \o EnteredLines(Tail(ss))

RECURSIVE NamesOf(_)
NamesOf(ss) ==
  IF ss = <<>> THEN <<>> ELSE <<Head(ss).branchName>> \o NamesOf(Tail(ss))

\* mutant of formatSummaryReport: the overall totals taken over every
\* summary, entered or not
formatSummaryReportAll(date, ss) ==
  LET sortedSummaries == SortByName(ss, <<>>)
      entered     == SelectSeq(sortedSummaries, LAMBDA s : s.hasEntry)
      notEntered  == SelectSeq(sortedSummaries, LAMBDA s : ~s.hasEntry)
      totalTarget == SumField(sortedSummaries, "totalTarget", 0)
      totalAch    == SumField(sortedSummaries, "totalAch", 0)
  IN [shown |-> TRUE, date |-> date,
      enteredCount |-> Len(entered), entered |-> EnteredLines(entered),
      notEnteredCount |-> Len(notEntered), notEntered |-> NamesOf(notEntered),
      totalTarget |-> totalTarget, totalAch |-> totalAch,
      overallPercent |-> IF totalTarget > 0
                           THEN ToFixed(Percent(totalAch, totalTarget), 1)
                           ELSE FixedZero,
      reported |-> <<Len(entered), Len(ss)>>]

\* telegram.formatSummaryReport; the message is kept as its parts, in the
\* order they are written
formatSummaryReport(date, ss) ==
  LET sortedSummaries == SortByName(ss, <<>>)
      entered     == SelectSeq(sortedSummaries, LAMBDA s : s.hasEntry)
      notEntered  == SelectSeq(sortedSummaries, LAMBDA s : ~s.hasEntry)
      totalTarget == SumField(entered, "totalTarget", 0)
      totalAch    == SumField(entered, "totalAch", 0)
  IN [shown |-> TRUE, date |-> date,
      enteredCount |-> Len(entered), entered |-> EnteredLines(entered),
      notEnteredCount |-> Len(notEntered), notEntered |-> NamesOf(notEntered),
      totalTarget |-> totalTarget, totalAch |-> totalAch,
      overallPercent |-> IF totalTarget > 0
                           THEN ToFixed(Percent(totalAch, totalTarget), 1)
                           ELSE FixedZero,
      reported |-> <<Len(entered), Len(ss)>>]

\* the message of telegram.sendEntryNotification, lines 93-106, and the
\* boolean sendTelegramMessage resolves to
EntryNotificationOf(entry, ok) ==
  LET percent == IF entry.targetQty > 0
                   THEN ToFixed(Percent(entry.achQty, entry.targetQty), 1)
                   ELSE FixedZero
  IN [shown |-> TRUE, isUpdate |-> entry.isUpdate,
      branchName |-> entry.branchName, executiveName |-> entry.executiveName,
      date |-> entry.date, targetQty |-> entry.targetQty, achQty |-> entry.achQty,
      cashQty |-> entry.cashQty, balance |-> entry.targetQty - entry.achQty,
      emoji |-> StatusEmoji(percent), percent |-> percent, returned |-> ok]

\* <<target, achieved>> pairs of a branch or an entry: nothing, negative,
\* around 70 and around 90
ReportFigures == { <<0, 0>>, <<-1, 1>>, <<10, 7>>, <<23, 16>>, <<10, 9>>,
                   <<29, 26>>, <<10, 10>> }

BranchSummaries ==
  { [branchName |-> BranchNames[k], hasEntry |-> h,
     totalTarget |-> f[1], totalAch |-> f[2]] :
      k \in 1..3, h \in BOOLEAN, f \in ReportFigures }

EntryNotes ==
  { [branchName |-> BranchNames[1], executiveName |-> ExecName(e), date |-> Today,
     targetQty |-> f[1], achQty |-> f[2], cashQty |-> c, isUpdate |-> u] :
      e \in Execs, f \in ReportFigures, c \in CashValues, u \in BOOLEAN }

\* a report is about to be formatted, or an entry notification to be sent
InitReport ==
  /\ PagesInit
  /\ AggIdle
  /\ PageIdle
  /\ BadgeIdle
  /\ report = NotRendered
  /\ notification = NotRendered
  /\ StatusIdle
  /\ ExportIdle
  /\ MasterIdle
  /\ \/ summaries \in SeqsUpTo(BranchSummaries, MaxBranches) /\ entryNote = NoEntryNote
     \/ summaries = <<>> /\ entryNote \in EntryNotes

\* Admin.handleSendTelegram, Dashboard.tsx line 427
FormatSummaryReport ==
  /\ report' = formatSummaryReport(Today, summaries)
  /\ UNCHANGED <<storeVars, mgrVars, adminVars, aggVars, pageVars, badgeVars,
                 summaries, entryNote, notification, statusVars, exportVars, masterVars>>

SendEntryNotification(ok) ==
  /\ notification' = EntryNotificationOf(entryNote, ok)
  /\ UNCHANGED <<storeVars, mgrVars, adminVars, aggVars, pageVars, badgeVars,
                 summaries, report, entryNote, statusVars, exportVars, masterVars>>

NextReport ==
  \/ FormatSummaryReport
  \/ \E ok \in BOOLEAN : SendEntryNotification(ok)

SpecReport == InitReport /\ [][NextReport]_vars

\* ------------------------------------------------- branch status update
MaxEntries == 3       \* DailyEntry documents in the store when the update is sent

\* Branches document ids in snapshot order, and an id no branch has
BranchIds == <<"b1", "b2">>
GoneBranch == "b9"

\* branchSnapshot.docs.map(doc => ({id, name})), telegram.ts lines 116-120
RECURSIVE BranchList(_)
BranchList(k) ==
  IF k > Len(BranchIds) THEN <<>>
  ELSE (IF BranchIds[k] \in DOMAIN branches
          THEN <<[id |-> BranchIds[k], name |-> branches[BranchIds[k]].branchName]>>
          ELSE <<>>) \o BranchList(k + 1)

\* where('date', '==', date)
DateQuery(date) == { i \in DOMAIN store : store[i].date = date }

\* collectionsSnapshot.docs.forEach: branchTotals over the documents in id
\* order, lines 135-144; a Map from branchId to {target, ach}
RECURSIVE BranchTotals(_, _)
BranchTotals(ids, totals) ==
  IF ids = {} THEN totals
  ELSE LET i       == MinOf(ids)
           b       == store[i].branchId
           current == IF b \in DOMAIN totals THEN totals[b] ELSE [target |-> 0, ach |-> 0]
           item    == [target |-> current.target + store[i].targetQty,
                       ach |-> current.ach + store[i].achQty]
       IN BranchTotals(ids \ {i},
            [x \in DOMAIN totals \cup {b} |-> IF x = b THEN item ELSE totals[x]])

\* branches.forEach, lines 150-157
RECURSIVE EnteredOf(_, _)
EnteredOf(list, totals) ==
  IF list = <<>> THEN <<>>
  ELSE (IF Head(list).id \in DOMAIN totals
          THEN <<[branchName |-> Head(list).name,
                  totalTarget |-> totals[Head(list).id].target,
                  totalAch |-> totals[Head(list).id].ach]>>
          ELSE <<>>) \o EnteredOf(Tail(list), totals)

RECURSIVE NotEnteredOf(_, _)
NotEnteredOf(list, totals) ==
  IF list = <<>> THEN <<>>
  ELSE (IF Head(list).id \in DOMAIN totals THEN <<>>
        ELSE <<[branchName |-> Head(list).name]>>) \o NotEnteredOf(Tail(list), totals)

\* mutant of StatusMessage: a branch counts as entered when any entry of any
\* date carries its id
StatusMessageAnyDate(date) ==
  LET list       == BranchList(1)
      totals     == BranchTotals(DOMAIN store, EmptyMap)
      entered    == SortByName(EnteredOf(list, totals), <<>>)
      notEntered == SortByName(NotEnteredOf(list, totals), <<>>)
      totalTarget == SumField(entered, "totalTarget", 0)
      totalAch    == SumField(entered, "totalAch", 0)
  IN [date |-> date, enteredCount |-> Len(entered), branchCount |-> Len(list),
      entered |-> EnteredLines(entered),
      notEnteredCount |-> Len(notEntered), notEntered |-> NamesOf(notEntered),
      totalAch |-> totalAch, totalTarget |-> totalTarget,
      overallPercent |-> IF totalTarget > 0
                           THEN ToFixed(Percent(totalAch, totalTarget), 1)
                           ELSE FixedZero]

\* the message of sendBranchStatusUpdate, lines 124-192, kept as its parts
StatusMessage(date) ==
  LET list       == BranchList(1)
      totals     == BranchTotals(DateQuery(date), EmptyMap)
      entered    == SortByName(EnteredOf(list, totals), <<>>)
      notEntered == SortByName(NotEnteredOf(list, totals), <<>>)
      totalTarget == SumField(entered, "totalTarget", 0)
      totalAch    == SumField(entered, "totalAch", 0)
  IN [date |-> date, enteredCount |-> Len(entered), branchCount |-> Len(list),
      entered |-> EnteredLines(entered),
      notEnteredCount |-> Len(notEntered), notEntered |-> NamesOf(notEntered),
      totalAch |-> totalAch, totalTarget |-> totalTarget,
      overallPercent |-> IF totalTarget > 0
                           THEN ToFixed(Percent(totalAch, totalTarget), 1)
                           ELSE FixedZero]

\* telegram.sendBranchStatusUpdate(date): fetched says whether the two
\* getDocs resolved, accepted whether the channel took the message
SendBranchStatusUpdate(date, fetched, accepted) ==
  /\ statusUpdate' =
       IF ~fetched
         THEN \* catch: return false
              [called |-> TRUE, date |-> date, fetched |-> FALSE, sent |-> FALSE,
               returned |-> FALSE]
       ELSE IF BranchList(1) = <<>>
         THEN \* if (branches.length === 0) return false
              [called |-> TRUE, date |-> date, fetched |-> TRUE, sent |-> FALSE,
               returned |-> FALSE]
       ELSE [called |-> TRUE, date |-> date, fetched |-> TRUE, sent |-> TRUE,
             message |-> StatusMessage(date), accepted |-> accepted,
             returned |-> accepted]
  /\ UNCHANGED <<storeVars, mgrVars, adminVars, aggVars, pageVars, badgeVars, reportVars, branches, exportVars, masterVars>>

\* entries the store can hold when the update is sent: of an existing
\* branch or of one that is gone, of the day or of the day before
StatusDates == {Today - 1, Today}
StatusFigures == { <<10, 9>>, <<2, 1>> }

StatusEntries ==
  { [branchId |-> b, executiveId |-> "e1", date |-> d,
     targetQty |-> f[1], achQty |-> f[2], cashQty |-> 0, remarks |-> "",
     editHistory |-> <<>>] :
      b \in {BranchIds[1], BranchIds[2], GoneBranch}, d \in StatusDates,
      f \in StatusFigures }

BranchStores ==
  UNION { [ids -> { [branchName |-> BranchNames[k]] : k \in 1..2 }] :
            ids \in SUBSET { BranchIds[1], BranchIds[2] } }

InitStatus ==
  /\ \E n \in 0..MaxEntries : store \in [1..n -> StatusEntries]
  /\ nextId = Cardinality(DOMAIN store) + 1
  /\ writes = 0
  /\ PagesClosed
  /\ AggIdle
  /\ PageIdle
  /\ BadgeIdle
  /\ ReportIdle
  /\ branches \in BranchStores
  /\ statusUpdate = NotCalled
  /\ ExportIdle
  /\ MasterIdle

NextStatus ==
  \E fetched \in BOOLEAN, accepted \in BOOLEAN :
    SendBranchStatusUpdate(Today, fetched, accepted)

SpecStatus == InitStatus /\ [][NextStatus]_vars

\* ------------------------------------------------------------------ export
\* a date string YYYY-MM-DD is kept as the integer YYYYMMDD, which orders as
\* the strings do
YearOf(date)  == date \div 10000
MonthOf(date) == (date \div 100) % 100
DayOf(date)   == date % 100

\* new Date(text).getMonth() / getFullYear(): the text is read as midnight
\* UTC and the month and the year are taken in local time, so in a zone
\* behind UTC the first day of a month belongs to the month before
LocalMonth(date, behindUtc) ==
  IF behindUtc /\ DayOf(date) = 1
    THEN (IF MonthOf(date) = 1 THEN 12 ELSE MonthOf(date) - 1)
    ELSE MonthOf(date)

LocalYear(date, behindUtc) ==
  IF behindUtc /\ DayOf(date) = 1 /\ MonthOf(date) = 1
    THEN YearOf(date) - 1
    ELSE YearOf(date)

NoDate == 0           \* endDate left out

\* unnamed/part_001 generateFilename; the name is kept as its parts
generateFilename(startDate, endDate, behindUtc) ==
  IF endDate = NoDate \/ startDate = endDate
    THEN [label |-> "Daily_Collection", start |-> startDate]
  ELSE IF /\ LocalMonth(startDate, behindUtc) = LocalMonth(endDate, behindUtc)
          /\ LocalYear(startDate, behindUtc) = LocalYear(endDate, behindUtc)
    THEN [label |-> "Monthly_Collection", month |-> LocalMonth(startDate, behindUtc),
          year |-> LocalYear(startDate, behindUtc)]
  ELSE [label |-> "Collection", start |-> startDate, end |-> endDate]

\* branchList.find(b => b.id === selectedBranch)?.name || ''
BranchNameOf(list, id) ==
  IF \E k \in 1..Len(list) : list[k].id = id
    THEN list[CHOOSE k \in 1..Len(list) : list[k].id = id].name
    ELSE ""

\* Dashboard.tsx lines 398-399
ExportFilename ==
  LET branchName == IF selectedBranch = "all" THEN ""
                    ELSE BranchNameOf(aBranchList, selectedBranch)
  IN IF aStart = aEnd
       THEN [label |-> "Daily_Collection", branch |-> branchName, start |-> aStart]
       ELSE [label |-> "Collection", branch |-> branchName, start |-> aStart,
             end |-> aEnd]

\* Dashboard.tsx lines 447-450: Array.prototype.sort sorts in place and
\* returns the array, so with "all" it is collections itself that is sorted
FilteredCollections ==
  SortByName(IF selectedBranch = "all" THEN aCollections
             ELSE SelectSeq(aCollections, LAMBDA c : c.branchId = selectedBranch),
             <<>>)

\* Dashboard.tsx lines 393-397
ExportRow(row) ==
  [date |-> row.date, branchName |-> row.branchName,
   executiveName |-> row.executiveName, targetQty |-> row.targetQty,
   achQty |-> row.achQty, cashQty |-> row.cashQty,
   balance |-> row.targetQty - row.achQty,
   achievementPercent |-> IF row.targetQty > 0 THEN Percent(row.achQty, row.targetQty)
                          ELSE ZeroPercent]

RECURSIVE ExportData(_)
ExportData(rows) ==
  IF rows = <<>> THEN <<>> ELSE <<ExportRow(Head(rows))>> \o ExportData(Tail(rows))

\* Admin.handleExport (Dashboard.tsx), on the render it is clicked in
HandleExport ==
  /\ exported' = [done |-> TRUE, filename |-> ExportFilename,
                  rows |-> ExportData(FilteredCollections)]
  /\ aCollections' = IF selectedBranch = "all" THEN FilteredCollections ELSE aCollections
  /\ UNCHANGED <<storeVars, mgrVars, aPhase, aStart, aEnd, aEditingId, aAlert, aggVars, pageVars,
                 badgeVars, reportVars, statusVars, aBranchList, selectedBranch, generated, masterVars>>

\* generateFilename(startDate, endDate) for the window of the page
GenerateFilename(behindUtc) ==
  /\ generated' = [done |-> TRUE, behindUtc |-> behindUtc,
                   filename |-> generateFilename(aStart, aEnd, behindUtc)]
  /\ UNCHANGED <<storeVars, mgrVars, adminVars, aggVars, pageVars,
                 badgeVars, reportVars, statusVars, aBranchList, selectedBranch, exported, masterVars>>

\* windows: one day, inside a month from its first day, inside a month,
\* across months, across years
ExportDates == {20240501, 20240515, 20240531, 20240602, 20250501}

\* the branches the page lists, by name; the ids are in the other order
ExportBranchList ==
  <<[id |-> BranchIds[2], name |-> BranchNames[1]],
    [id |-> BranchIds[1], name |-> BranchNames[2]]>>

ExportFigures == { <<-1, 1>>, <<0, 0>>, <<10, 9>> }

\* rows as fetchCollections builds them, Dashboard.tsx lines 290-305
ExportRowsOf(date) ==
  { [date |-> date, branchId |-> b,
     branchName |-> IF BranchNameOf(ExportBranchList, b) = "" THEN "Unknown"
                    ELSE BranchNameOf(ExportBranchList, b),
     executiveId |-> "e1", executiveName |-> ExecName("e1"),
     targetQty |-> f[1], achQty |-> f[2], cashQty |-> 0, remarks |-> "",
     editHistory |-> <<>>] :
      b \in {BranchIds[1], BranchIds[2], GoneBranch}, f \in ExportFigures }

\* the fetched rows, each with the id of its document
WithIds(rows) == [k \in 1..Len(rows) |->
  [id |-> k, date |-> rows[k].date, branchId |-> rows[k].branchId,
   branchName |-> rows[k].branchName, executiveId |-> rows[k].executiveId,
   executiveName |-> rows[k].executiveName, targetQty |-> rows[k].targetQty,
   achQty |-> rows[k].achQty, cashQty |-> rows[k].cashQty,
   remarks |-> rows[k].remarks, editHistory |-> rows[k].editHistory]]

\* the Admin page of Dashboard.tsx has loaded a window of rows
InitExport ==
  /\ store = EmptyMap
  /\ nextId = 1
  /\ writes = 0
  /\ mPhase = [s \in Sessions |-> "closed"]
  /\ mDate = [s \in Sessions |-> Today]
  /\ mForm = [s \in Sessions |-> FALSE]
  /\ mEntries = [s \in Sessions |-> EmptyMap]
  /\ mSaving = [s \in Sessions |-> NoExec]
  /\ mError = [s \in Sessions |-> NoExec]
  /\ aPhase = "ready"
  /\ aStart \in ExportDates
  /\ aEnd \in { d \in ExportDates : d >= aStart }
  /\ aCollections \in { WithIds(rows) : rows \in SeqsUpTo(ExportRowsOf(aStart), MaxRows) }
  /\ aEditingId = NoId
  /\ aAlert = ""
  /\ AggIdle
  /\ PageIdle
  /\ BadgeIdle
  /\ ReportIdle
  /\ StatusIdle
  /\ aBranchList = ExportBranchList
  /\ selectedBranch \in {"all", BranchIds[1], BranchIds[2]}
  /\ exported = NotDone
  /\ generated = NotDone
  /\ MasterIdle

NextExport ==
  \/ HandleExport
  \/ \E behindUtc \in BOOLEAN : GenerateFilename(behindUtc)

SpecExport == InitExport /\ [][NextExport]_vars

\* ---------------------------------------------- branches and executives
\* executives document ids in snapshot order
ExecIds == <<"e1", "e2">>

\* Branches.fetchBranches, lines 26-40: the documents in snapshot order
RECURSIVE BranchRows(_)
BranchRows(k) ==
  IF k > Len(BranchIds) THEN <<>>
  ELSE (IF BranchIds[k] \in DOMAIN branches
          THEN <<[id |-> BranchIds[k], branchName |-> branches[BranchIds[k]].branchName]>>
          ELSE <<>>) \o BranchRows(k + 1)

\* mounting the Branches page
FetchBranches(ok) ==
  /\ bBranches' = IF ok THEN BranchRows(1) ELSE <<>>
  /\ bMessage' = ""
  /\ UNCHANGED <<storeVars, mgrVars, adminVars, aggVars, pageVars, badgeVars, reportVars,
                 statusVars, exportVars, executives, xExecutives, xMessage>>

\* mutant of BranchesHandleDelete: the executives of the branch go with it
BranchesHandleDeleteCascade(k, ok) ==
  /\ k \in 1..Len(bBranches)
  /\ LET id == bBranches[k].id IN
     IF ok
       THEN /\ branches' = [b \in DOMAIN branches \ {id} |-> branches[b]]
            /\ executives' = [e \in { x \in DOMAIN executives :
                                         executives[x].branchId # id } |-> executives[e]]
            /\ bBranches' = SelectSeq(bBranches, LAMBDA b : b.id # id)
            /\ bMessage' = "Branch deleted!"
       ELSE /\ bMessage' = "Failed to delete"
            /\ UNCHANGED <<branches, executives, bBranches>>
  /\ UNCHANGED <<storeVars, mgrVars, adminVars, aggVars, pageVars, badgeVars, reportVars,
                 statusUpdate, exportVars, xExecutives, xMessage>>

\* Branches.handleDelete(id), confirmed by the admin, lines 99-109
BranchesHandleDelete(k, ok) ==
  /\ k \in 1..Len(bBranches)
  /\ LET id == bBranches[k].id IN
     IF ok
       THEN /\ branches' = [b \in DOMAIN branches \ {id} |-> branches[b]]
            /\ bBranches' = SelectSeq(bBranches, LAMBDA b : b.id # id)
            /\ bMessage' = "Branch deleted!"
       ELSE \* deleteDoc rejects: catch
            /\ bMessage' = "Failed to delete"
            /\ UNCHANGED <<branches, bBranches>>
  /\ UNCHANGED <<storeVars, mgrVars, adminVars, aggVars, pageVars, badgeVars, reportVars,
                 statusUpdate, exportVars, executives, xExecutives, xMessage>>

\* Executives.fetchExecutives, Entry.tsx lines 386-404:
\* where('branchId', '==', branchId), in snapshot order
RECURSIVE ExecRows(_)
ExecRows(k) ==
  IF k > Len(ExecIds) THEN <<>>
  ELSE (IF ExecIds[k] \in DOMAIN executives /\ executives[ExecIds[k]].branchId = BranchId
          THEN <<[id |-> ExecIds[k], name |-> executives[ExecIds[k]].name]>>
          ELSE <<>>) \o ExecRows(k + 1)

\* mounting the Executives page of the manager's branch
FetchExecutives(ok) ==
  /\ xExecutives' = IF ok THEN ExecRows(1) ELSE <<>>
  /\ xMessage' = ""
  /\ UNCHANGED <<storeVars, mgrVars, adminVars, aggVars, pageVars, badgeVars, reportVars,
                 statusVars, exportVars, executives, bBranches, bMessage>>

\* Executives.handleDelete(id), confirmed by the manager, Entry.tsx lines 464-474
ExecutivesHandleDelete(k, ok) ==
  /\ k \in 1..Len(xExecutives)
  /\ LET id == xExecutives[k].id IN
     IF ok
       THEN /\ executives' = [e \in DOMAIN executives \ {id} |-> executives[e]]
            /\ xExecutives' = SelectSeq(xExecutives, LAMBDA e : e.id # id)
            /\ xMessage' = "Executive deleted!"
       ELSE \* deleteDoc rejects: catch
            /\ xMessage' = "Failed to delete"
            /\ UNCHANGED <<executives, xExecutives>>
  /\ UNCHANGED <<storeVars, mgrVars, adminVars, aggVars, pageVars, badgeVars, reportVars,
                 statusVars, exportVars, bBranches, bMessage>>

\* entries, executives and branches that refer to one another
MasterEntries ==
  { [branchId |-> b, executiveId |-> e, date |-> Today,
     targetQty |-> 10, achQty |-> 9, cashQty |-> 0, remarks |-> "",
     editHistory |-> <<>>] :
      b \in {BranchIds[1], BranchIds[2]}, e \in {ExecIds[1], ExecIds[2]} }

\* every branch and executive an entry refers to exists
InitMaster ==
  /\ \E n \in 0..MaxEntries : store \in [1..n -> MasterEntries]
  /\ nextId = Cardinality(DOMAIN store) + 1
  /\ writes = 0
  /\ PagesClosed
  /\ AggIdle
  /\ PageIdle
  /\ BadgeIdle
  /\ ReportIdle
  /\ branches \in [{BranchIds[1], BranchIds[2]} ->
                      { [branchName |-> BranchNames[k]] : k \in 1..2 }]
  /\ statusUpdate = NotCalled
  /\ ExportIdle
  /\ \E of \in [{ExecIds[1], ExecIds[2]} -> {BranchIds[1], BranchIds[2]}] :
       executives = [e \in {ExecIds[1], ExecIds[2]} |->
                       [branchId |-> of[e], name |-> ExecName(e)]]
  /\ MasterPagesClosed

NextMaster ==
  \/ \E ok \in BOOLEAN : FetchBranches(ok)
  \/ \E k \in 1..Len(BranchIds), ok \in BOOLEAN : BranchesHandleDelete(k, ok)
  \/ \E ok \in BOOLEAN : FetchExecutives(ok)
  \/ \E k \in 1..Len(ExecIds), ok \in BOOLEAN : ExecutivesHandleDelete(k, ok)

SpecMaster == InitMaster /\ [][NextMaster]_vars

\* the class of the UI colours for achieved a out of target t: the percent
\* shown is 100 a / t for a positive target and 0 otherwise
UiClass(a, t) ==
  IF t <= 0 THEN "red"
  ELSE IF 100 * a < 70 * t THEN "red"
  ELSE IF 100 * a <= 90 * t THEN "yellow"
  ELSE "green"

\* C12: the status marker of every report line and notification follows the
\* three-way classification of the UI colours for its achieved / target pair:
\* red below 70 percent, yellow from 70 to 90 inclusive, green only above 90;
\* a branch at exactly 90 percent is marked yellow.
MarkerFollowsUiClass ==
  /\ report.shown =>
       \A k \in 1..Len(report.entered) :
         report.entered[k].emoji =
           UiClass(report.entered[k].totalAch, report.entered[k].totalTarget)
  /\ notification.shown =>
       notification.emoji = UiClass(notification.achQty, notification.targetQty)
  /\ (statusUpdate.called /\ statusUpdate.sent) =>
       \A k \in 1..Len(statusUpdate.message.entered) :
         statusUpdate.message.entered[k].emoji =
           UiClass(statusUpdate.message.entered[k].totalAch,
                   statusUpdate.message.entered[k].totalTarget)

\* sum of field f over the summaries that have an entry
RECURSIVE EnteredSum(_, _)
EnteredSum(ss, f) ==
  IF ss = <<>> THEN 0
  ELSE (IF Head(ss).hasEntry THEN Head(ss)[f] ELSE 0) + EnteredSum(Tail(ss), f)

\* C13: formatSummaryReport lists each branch in exactly one of the entered /
\* not-entered sections according to hasEntry (the two counts sum to the
\* number of summaries), the overall Total Target and Total ACH are the sums
\* over the entered branches only, the overall percent is 0 when that total
\* target is 0, and the last line reports entered count out of total count.
ReportPartitionsAndTotals ==
  report.shown =>
    LET n   == Len(summaries)
        In  == { i \in 1..n : summaries[i].hasEntry }
        Out == { i \in 1..n : ~summaries[i].hasEntry }
    IN /\ report.enteredCount = Cardinality(In)
       /\ Len(report.entered) = Cardinality(In)
       /\ report.notEnteredCount = Cardinality(Out)
       /\ Len(report.notEntered) = Cardinality(Out)
       /\ report.enteredCount + report.notEnteredCount = n
       /\ \A k \in 1..Len(BranchNames) :
            LET name == BranchNames[k] IN
            /\ Cardinality({ j \in 1..Len(report.entered) :
                               report.entered[j].branchName = name })
                 = Cardinality({ i \in In : summaries[i].branchName = name })
            /\ Cardinality({ j \in 1..Len(report.notEntered) :
                               report.notEntered[j] = name })
                 = Cardinality({ i \in Out : summaries[i].branchName = name })
       /\ report.totalTarget = EnteredSum(summaries, "totalTarget")
       /\ report.totalAch = EnteredSum(summaries, "totalAch")
       /\ report.totalTarget = 0 => report.overallPercent.scaled = 0
       /\ report.reported = <<Cardinality(In), n>>

\* C13 witness: a report was formatted for one entered branch and one branch
\* without entry whose summary carries figures of its own
ReportLeftOutNotEntered ==
  /\ report.shown
  /\ Len(summaries) = 2
  /\ \E i, j \in 1..2 :
       /\ summaries[i].hasEntry /\ summaries[i].totalTarget > 0
       /\ ~summaries[j].hasEntry /\ summaries[j].totalTarget > 0
  /\ report.reported = <<1, 2>>

\* sum of field f over the stored documents ids
RECURSIVE StoreSum(_, _)
StoreSum(ids, f) ==
  IF ids = {} THEN 0
  ELSE LET i == CHOOSE x \in ids : TRUE IN store[i][f] + StoreSum(ids \ {i}, f)

\* C14: sendBranchStatusUpdate(date) lists a branch as entered if and only
\* if at least one DailyEntry with the branch's id exists for the date, its
\* reported target and achieved are the sums over all its entries of that
\* date, and entries whose branchId matches no existing branch contribute to
\* no branch and to no overall total.
StatusJoinsBranchesWithEntries ==
  (statusUpdate.called /\ statusUpdate.sent) =>
    LET m      == statusUpdate.message
        Of(b)  == { i \in DOMAIN store :
                      store[i].branchId = b /\ store[i].date = statusUpdate.date }
        In     == { b \in DOMAIN branches : Of(b) # {} }
        Out    == DOMAIN branches \ In
        Due(b) == [branchName |-> branches[b].branchName,
                   totalTarget |-> StoreSum(Of(b), "targetQty"),
                   totalAch |-> StoreSum(Of(b), "achQty")]
        Got(k) == [branchName |-> m.entered[k].branchName,
                   totalTarget |-> m.entered[k].totalTarget,
                   totalAch |-> m.entered[k].totalAch]
    IN /\ Len(m.entered) = Cardinality(In)
       /\ m.enteredCount = Cardinality(In)
       /\ Len(m.notEntered) = Cardinality(Out)
       /\ m.notEnteredCount = Cardinality(Out)
       /\ \A b \in In :
            Cardinality({ k \in 1..Len(m.entered) : Got(k) = Due(b) })
              = Cardinality({ c \in In : Due(c) = Due(b) })
       /\ \A b \in Out :
            Cardinality({ k \in 1..Len(m.notEntered) :
                            m.notEntered[k] = branches[b].branchName })
              = Cardinality({ c \in Out : branches[c].branchName = branches[b].branchName })
       /\ m.totalTarget = StoreSum(UNION { Of(b) : b \in DOMAIN branches }, "targetQty")
       /\ m.totalAch = StoreSum(UNION { Of(b) : b \in DOMAIN branches }, "achQty")

\* C14 witness: an update was sent for a date on which one branch has two
\* entries, the other branch has an entry of another date only, and an entry
\* of the date carries the id of no branch
StatusSentWithOrphanAndSum ==
  /\ statusUpdate.called /\ statusUpdate.sent
  /\ DOMAIN branches = { BranchIds[1], BranchIds[2] }
  /\ \E i, j, k \in DOMAIN store :
       /\ i # j
       /\ store[i].branchId = BranchIds[1] /\ store[i].date = statusUpdate.date
       /\ store[j].branchId = BranchIds[1] /\ store[j].date = statusUpdate.date
       /\ store[i].targetQty > 0 /\ store[j].targetQty > 0
       /\ store[k].branchId = GoneBranch /\ store[k].date = statusUpdate.date
       /\ store[k].targetQty > 0
  /\ statusUpdate.message.enteredCount = 1
  /\ statusUpdate.message.notEnteredCount = 1

\* C15: with the store readable, "no branches at all" and "zero entered
\* branches" are both rendered: a message is built and handed to the
\* notification channel, and the call reports failure only if the channel
\* refused the message.
EmptyStatesAreRendered ==
  (statusUpdate.called /\ statusUpdate.fetched) =>
    LET none == DOMAIN branches = {}
        idle == \A i \in DOMAIN store :
                  store[i].date = statusUpdate.date => store[i].branchId \notin DOMAIN branches
    IN (none \/ idle) =>
         /\ statusUpdate.sent
         /\ statusUpdate.accepted => statusUpdate.returned

\* C16: the export projection emits exactly one row per entry of the
\* filtered list, in the list's order (branch name ascending), each row with
\* the entry's own date, names, target, achieved and cash, balance = target -
\* achieved and percent = 0 when target = 0 else 100 * achieved / target; the
\* projection changes no entry and no stored record.
ExportProjectsEachEntry ==
  [][exported'.done =>
       LET n       == Len(aCollections)
           F       == { k \in 1..n : selectedBranch = "all"
                                       \/ aCollections[k].branchId = selectedBranch }
           Before(j, k) ==
             \/ NameRank(aCollections[j].branchName) < NameRank(aCollections[k].branchName)
             \/ /\ aCollections[j].branchName = aCollections[k].branchName
                /\ j < k
           Pos(k)  == 1 + Cardinality({ j \in F : Before(j, k) })
           rows    == exported'.rows
       IN /\ Len(rows) = Cardinality(F)
          /\ \A k \in F :
               LET e == aCollections[k]
                   r == rows[Pos(k)]
               IN /\ r.date = e.date
                  /\ r.branchName = e.branchName
                  /\ r.executiveName = e.executiveName
                  /\ r.targetQty = e.targetQty
                  /\ r.achQty = e.achQty
                  /\ r.cashQty = e.cashQty
                  /\ r.balance = e.targetQty - e.achQty
                  /\ IF e.targetQty = 0 THEN r.achievementPercent.num = 0
                     ELSE r.achievementPercent.num * e.targetQty
                            = 100 * e.achQty * r.achievementPercent.den
          /\ store' = store
          /\ Len(aCollections') = n
          /\ \A k \in 1..n : \E j \in 1..n : aCollections'[j] = aCollections[k]]_vars

\* the label the window from start to end calls for
LabelFollows(f, start, end) ==
  IF start = end
    THEN /\ f.label = "Daily_Collection"
         /\ f.start = start
         /\ "branch" \in DOMAIN f => f.branch = ""
  ELSE IF MonthOf(start) = MonthOf(end) /\ YearOf(start) = YearOf(end)
    THEN /\ f.label = "Monthly_Collection"
         /\ f.month = MonthOf(start)
         /\ f.year = YearOf(start)
  ELSE /\ f.label = "Collection"
       /\ f.start = start
       /\ f.end = end
       /\ "branch" \in DOMAIN f => f.branch = ""

\* C17: the export filename label is a function of the window's start and
\* end date alone: daily with the single date when they are equal, monthly
\* with month and year when they differ inside one calendar month, otherwise
\* a range label with both endpoints; this holds for the filename the admin
\* export uses.
FilenameLabelFollowsWindow ==
  /\ exported.done => LabelFollows(exported.filename, aStart, aEnd)
  /\ generated.done => LabelFollows(generated.filename, aStart, aEnd)

\* C18: deleting a Branch leaves every Executive and every DailyEntry
\* unchanged, and deleting an Executive leaves every DailyEntry and every
\* Branch unchanged; records that refer to the deleted id stay in the store.
DeletesDoNotCascade ==
  [][/\ DOMAIN branches' # DOMAIN branches =>
          /\ executives' = executives
          /\ store' = store
          /\ \A b \in DOMAIN branches' : branches'[b] = branches[b]
     /\ DOMAIN executives' # DOMAIN executives =>
          /\ store' = store
          /\ branches' = branches
          /\ \A e \in DOMAIN executives' : executives'[e] = executives[e]]_vars

\* C18 witness: a branch and an executive were deleted while an executive
\* and an entry of that branch and an entry of that executive are stored
OrphansLeftByDeletes ==
  /\ bMessage = "Branch deleted!"
  /\ xMessage = "Executive deleted!"
  /\ \E e \in DOMAIN executives : executives[e].branchId \notin DOMAIN branches
  /\ \E i \in DOMAIN store : store[i].branchId \notin DOMAIN branches
  /\ \E i \in DOMAIN store : store[i].executiveId \notin DOMAIN executives

\* the stored entry carries the values a form submits
Submitted(d, form) ==
  /\ d.targetQty = ParseOrZero(form.target)
  /\ d.achQty = ParseOrZero(form.ach)
  /\ d.cashQty = ParseOrZero(form.cash)
  /\ d.remarks = form.remarks

\* C19: a save that an editor makes from the copy it holds of a stored
\* DailyEntry, whether or not another editor has written the entry since
\* the copy was read, is accepted by the store whenever the store is
\* taking writes, and right after it the entry's stored target, achieved,
\* cash and remark equal the values that save submitted.
LastWriteWins ==
  [][/\ \A s \in Sessions, e \in Execs, form \in EditForms :
          ( /\ mForm[s]
            /\ e \in DOMAIN mEntries[s]
            /\ mEntries[s][e].docId \in DOMAIN store
            /\ HandleSave(s, e, form, TRUE) )
          => /\ writes' = writes + 1
             /\ Submitted(store'[mEntries[s][e].docId], form)
     /\ \A k \in 1..MaxDocs, form \in EditForms :
          ( /\ k \in 1..Len(aCollections)
            /\ aCollections[k].id \in DOMAIN store
            /\ HandleSaveEdit(k, form, TRUE) )
          => /\ writes' = writes + 1
             /\ Submitted(store'[aCollections[k].id], form)]_vars

\* C19 witness: the manager and the admin both read the entry, the manager
\* saved a correction, then the admin saved its own from the copy it held:
\* the stored history has the admin's records and not the manager's, and
\* the stored values are those of the admin's row
BothEditorsSavedOneEntry ==
  \E e \in Execs :
    /\ e \in DOMAIN mEntries["m1"]
    /\ LET mine == mEntries["m1"][e] IN
       /\ mine.docId \in DOMAIN store
       /\ \E j \in 1..Len(mine.editHistory) : mine.editHistory[j].editedBy = OwnerEmail
       /\ store[mine.docId].editHistory # <<>>
       /\ \A j \in 1..Len(store[mine.docId].editHistory) :
            store[mine.docId].editHistory[j].editedBy = AdminEditor
       /\ \E k \in 1..Len(aCollections) : aCollections[k] = RowOf(mine.docId)
       /\ mine.targetQty # store[mine.docId].targetQty

\* C20: a save or delete that the store does not take (the owner's
\* handleSave, the admin's handleSaveEdit and handleDelete) is reported to
\* the user, leaves every stored record as it was, and leaves the page's
\* entries, rows and open edit as they were before the attempt.
FailedWriteIsReportedAndLeavesState ==
  [][/\ \A s \in Sessions, e \in Execs, form \in EditForms, ok \in BOOLEAN :
          (writes' = writes /\ mForm[s] /\ HandleSave(s, e, form, ok))
          => /\ mError'[s] = e
             /\ store' = store
             /\ mEntries' = mEntries
     /\ \A k \in 1..MaxDocs, form \in EditForms, ok \in BOOLEAN :
          (writes' = writes /\ HandleSaveEdit(k, form, ok))
          => /\ aAlert' = "Failed to update entry"
             /\ store' = store
             /\ aCollections' = aCollections
             /\ aEditingId' = aEditingId
     /\ \A k \in 1..MaxDocs, ok \in BOOLEAN :
          (writes' = writes /\ HandleDelete(k, ok))
          => /\ aAlert' = "Failed to delete entry"
             /\ store' = store
             /\ aCollections' = aCollections
             /\ aEditingId' = aEditingId]_vars

\* C20 witness: the manager's row shows 'Failed to save' and the admin was
\* told a delete failed, while an entry is stored, the admin's table still
\* holds its row and the manager's copy is the stored entry
FailuresShownOverKeptState ==
  /\ mError["m1"] # NoExec
  /\ aAlert = "Failed to delete entry"
  /\ \E k \in 1..Len(aCollections) :
       /\ aCollections[k].id \in DOMAIN store
       /\ aCollections[k] = RowOf(aCollections[k].id)
  /\ mError["m1"] \in DOMAIN mEntries["m1"]
  /\ mEntries["m1"][mError["m1"]] = EntryDataOf(mEntries["m1"][mError["m1"]].docId)

\* ------------------------------------- Admin page: today's entry status
\* Admin.getBranchSummary (Dashboard.tsx lines 403-420) on the current render
getBranchSummary ==
  LET todayCollections == SelectSeq(aCollections, LAMBDA c : c.date = Today)
  IN [k \in 1..Len(aBranchList) |->
        LET branchEntries ==
              SelectSeq(todayCollections, LAMBDA c : c.branchId = aBranchList[k].id)
        IN [branchName |-> aBranchList[k].name,
            hasEntry |-> Len(branchEntries) > 0,
            totalTarget |-> SumField(branchEntries, "targetQty", 0),
            totalAch |-> SumField(branchEntries, "achQty", 0),
            executiveCount |-> Len(branchEntries)]]

\* what the transport does with a request: an OK response, a response that
\* is not OK, or fetch() rejecting
TransportOutcomes == {"ok", "notOk", "throws"}

\* mutant of sendTelegramMessage: any response counts as delivered
sendTelegramMessageAnyResponse(outcome) == outcome # "throws"

\* telegram.sendTelegramMessage, lines 7-26: response.ok, or false from catch
sendTelegramMessage(outcome) ==
  IF outcome = "throws" THEN FALSE ELSE outcome = "ok"

\* Admin.handleSendTelegram up to its await, Dashboard.tsx lines 422-428; the
\* button is disabled while sendingTelegram
HandleSendTelegram ==
  /\ aPhase = "ready"
  /\ ~sendingTelegram
  /\ sendingTelegram' = TRUE
  /\ summaries' = getBranchSummary
  /\ report' = formatSummaryReport(Today, summaries')
  /\ telegram' = [called |-> TRUE, pending |-> TRUE]
  /\ UNCHANGED <<storeVars, mgrVars, adminVars, aggVars, badgeVars, entryNote,
                 notification, statusVars, exportVars, masterVars, mPending, fetchVars, routeVars>>

\* handleSendTelegram from the await on, lines 428-439: the alert and finally
TelegramResponds(outcome) ==
  /\ telegram.called
  /\ telegram.pending
  /\ LET success == sendTelegramMessage(outcome) IN
     /\ telegram' = [called |-> TRUE, pending |-> FALSE,
                     outcome |-> outcome, returned |-> success]
     /\ aAlert' = IF success THEN "Summary sent to Telegram!"
                  ELSE "Failed to send. Check bot token and chat ID."
  /\ sendingTelegram' = FALSE
  /\ UNCHANGED <<storeVars, mgrVars, aPhase, aStart, aEnd, aCollections, aEditingId,
                 aggVars, badgeVars, reportVars, statusVars, exportVars, masterVars,
                 mPending, fetchVars, routeVars>>

\* the date inputs of the page (setStartDate, setEndDate) and the effect on
\* [startDate, endDate], with the response of its fetchCollections
SetWindow(start, end, ok) ==
  /\ aPhase = "ready"
  /\ <<start, end>> # <<aStart, aEnd>>
  /\ start = aStart \/ end = aEnd
  /\ aStart' = start
  /\ aEnd' = end
  /\ aCollections' = IF aBranchList # <<>> /\ ok THEN WindowQuery(start, end)
                     ELSE aCollections
  /\ UNCHANGED <<storeVars, mgrVars, aPhase, aEditingId, aAlert, aggVars, utilVars>>

\* entries of two branches, of the day and of the day before
TodayEntries ==
  { [branchId |-> b, executiveId |-> "e1", date |-> d,
     targetQty |-> 10, achQty |-> 9, cashQty |-> 0, remarks |-> "",
     editHistory |-> <<>>] : b \in {BranchIds[1], BranchIds[2]}, d \in StatusDates }

\* the Admin page of Dashboard.tsx has loaded master data and today's rows
InitToday ==
  /\ \E n \in 0..MaxDocs : store \in [1..n -> TodayEntries]
  /\ nextId = Cardinality(DOMAIN store) + 1
  /\ writes = 0
  /\ mPhase = [s \in Sessions |-> "closed"]
  /\ mDate = [s \in Sessions |-> Today]
  /\ mForm = [s \in Sessions |-> FALSE]
  /\ mEntries = [s \in Sessions |-> EmptyMap]
  /\ mSaving = [s \in Sessions |-> NoExec]
  /\ mError = [s \in Sessions |-> NoExec]
  /\ aPhase = "ready"
  /\ aStart = Today
  /\ aEnd = Today
  /\ aCollections = WindowQuery(Today, Today)
  /\ aEditingId = NoId
  /\ aAlert = ""
  /\ AggIdle
  /\ BadgeIdle
  /\ ReportIdle
  /\ branches = [b \in {BranchIds[1], BranchIds[2]} |->
                   [branchName |-> BranchNameOf(ExportBranchList, b)]]
  /\ statusUpdate = NotCalled
  /\ aBranchList = ExportBranchList
  /\ selectedBranch = "all"
  /\ exported = NotDone
  /\ generated = NotDone
  /\ MasterIdle
  /\ PageIdle

\* the correction the admin makes to a row
TodayForms == { f \in EditForms : f.target = <<"8">> }

NextToday ==
  \/ \E start \in StatusDates, end \in StatusDates, ok \in BOOLEAN : SetWindow(start, end, ok)
  \/ \E k \in 1..MaxDocs : HandleEdit(k)
  \/ HandleCancelEdit
  \/ \E k \in 1..MaxDocs, form \in TodayForms : HandleSaveEdit(k, form, TRUE)
  \/ \E k \in 1..MaxDocs : HandleDelete(k, TRUE)
  \/ HandleSendTelegram
  \/ \E outcome \in TransportOutcomes : TelegramResponds(outcome)

SpecToday == InitToday /\ [][NextToday]_vars

\* C21: sendTelegramMessage resolves to a boolean in every case: false when
\* the transport throws or answers with a response that is not OK, true on
\* an OK response. On false handleSendTelegram alerts its 'check bot token
\* and chat ID' message; whatever the outcome, the sendingTelegram flag is
\* cleared when the call ends, and no step of the send changes the store.
TelegramSendReportsOutcome ==
  [][/\ (telegram' # telegram \/ sendingTelegram' # sendingTelegram) => store' = store
     /\ sendingTelegram' = (telegram'.called /\ telegram'.pending)
     /\ (sendingTelegram /\ telegram'.called /\ ~telegram'.pending)
        => /\ telegram'.returned \in BOOLEAN
           /\ telegram'.returned = (telegram'.outcome = "ok")
           /\ ~telegram'.returned
                => aAlert' = "Failed to send. Check bot token and chat ID."
           /\ ~sendingTelegram']_vars

\* C21 witness: the channel answered with a response that is not OK; the
\* admin was told to check the bot token and the button is enabled again
TelegramRefusedAndReported ==
  /\ telegram.called
  /\ ~telegram.pending
  /\ telegram.outcome = "notOk"
  /\ ~telegram.returned
  /\ aAlert = "Failed to send. Check bot token and chat ID."
  /\ ~sendingTelegram
  /\ report.shown

\* C22: the Admin page only reads collection data: no step of the Admin
\* page (mount, edit, cancel, save, delete) changes or removes a stored
\* DailyEntry.
AdminPageIsReadOnly ==
  [][AdminNext => store' = store]_vars

\* ------------------------------------------- Entry page beside other data
\* entries the store holds before the manager's page is opened: one of the
\* same executive id under another branch, and one of the day before
OtherEntries ==
  { [branchId |-> BranchIds[2], executiveId |-> "e1", date |-> Today,
     targetQty |-> 5, achQty |-> 1, cashQty |-> 2, remarks |-> "",
     editHistory |-> <<>>],
    [branchId |-> BranchId, executiveId |-> "e1", date |-> Today - 1,
     targetQty |-> 5, achQty |-> 1, cashQty |-> 2, remarks |-> "",
     editHistory |-> <<>>] }

InitBranch ==
  /\ \E n \in 0..1 : store \in [1..n -> OtherEntries]
  /\ nextId = Cardinality(DOMAIN store) + 1
  /\ writes = 0
  /\ PagesClosed
  /\ AggIdle
  /\ UtilIdle

SpecBranch == InitBranch /\ [][Next]_vars

OwnerCopyCurrent(s, e) ==
  e \in DOMAIN mEntries[s] =>
    /\ mEntries[s][e].docId \in DOMAIN store
    /\ mEntries[s][e] = EntryDataOf(mEntries[s][e].docId)

\* the admin's row k is the stored entry
AdminRowCurrent(k) ==
  /\ k \in 1..Len(aCollections)
  /\ aCollections[k].id \in DOMAIN store
  /\ aCollections[k] = RowOf(aCollections[k].id)

\* one manager session and the admin; a save is made only from a copy that
\* matches the store, and the store takes it
NextFresh ==
  \/ \E ok \in BOOLEAN : FetchData("m1", ok)
  \/ \E e \in Execs, form \in Forms :
       OwnerCopyCurrent("m1", e) /\ HandleSave("m1", e, form, TRUE)
  \/ \E ok \in BOOLEAN : AdminMount(ok)
  \/ \E k \in 1..MaxDocs : HandleEdit(k)
  \/ HandleCancelEdit
  \/ \E k \in 1..MaxDocs, form \in Forms :
       AdminRowCurrent(k) /\ HandleSaveEdit(k, form, TRUE)

SpecFresh == Init /\ [][NextFresh]_vars

\* C24: when every save is made from an up-to-date copy, the records of each
\* field in a stored entry's history form a chain (each oldValue is the
\* newValue of the field's previous record) and the newValue of the field's
\* last record is the value the entry stores for that field.
HistoryChainsToStoredValue ==
  \A i \in DOMAIN store, n \in 1..Len(TrackedFields) :
    LET rs == RecordsOf(store[i].editHistory, TrackedFields[n]) IN
    rs # <<>> =>
      /\ \A k \in 2..Len(rs) : rs[k].oldValue = rs[k - 1].newValue
      /\ rs[Len(rs)].newValue = FieldValue(store[i], TrackedFields[n])

\* C24, given the logging rule of the manager path: with every save made
\* from an up-to-date copy, a break in
\* the chain of a field's records, or a last record whose newValue is not
\* the stored value, only follows a record that left the field at zero or
\* below: the manager's next change of that field is not logged.
HistoryChainsExceptFromNonPositive ==
  \A i \in DOMAIN store, n \in 1..Len(TrackedFields) :
    LET rs == RecordsOf(store[i].editHistory, TrackedFields[n]) IN
    rs # <<>> =>
      /\ \A k \in 2..Len(rs) :
           rs[k].oldValue = rs[k - 1].newValue \/ rs[k - 1].newValue <= 0
      /\ \/ rs[Len(rs)].newValue = FieldValue(store[i], TrackedFields[n])
         \/ rs[Len(rs)].newValue <= 0

\* C24 witness: the manager set a target of 5 back to 0 and then to a
\* positive value again; the only Target record ends at 0
TargetRaisedFromZeroUnlogged ==
  \E i \in DOMAIN store :
    LET rs == RecordsOf(store[i].editHistory, "Target") IN
    /\ Len(rs) = 1
    /\ rs[1].editedBy = OwnerEmail
    /\ rs[1].oldValue > 0
    /\ rs[1].newValue = 0
    /\ store[i].targetQty > 0

\* ------------------------------------------ Entry.handleSave, step by step
MaxPending == 2       \* saves of one session that await the store at once

\* the other state of the Entry and Admin pages' requests
otherPageVars == <<sendingTelegram, telegram, fetchVars, routeVars>>

\* handleSave(execId) up to its first await, lines 126-139: the flag, the
\* blank message, the early return, and the entry the closure holds
SaveStart(s, e, form) ==
  /\ mPhase[s] = "ready"
  /\ mSaving[s] # e
  /\ Cardinality(mPending[s]) < MaxPending
  /\ mSaving' = [mSaving EXCEPT ![s] = e]
  /\ mError' = [mError EXCEPT ![s] = NoExec]
  /\ mPending' = [mPending EXCEPT ![s] =
       IF ~mForm[s] THEN @
       ELSE @ \cup {[exec |-> e, form |-> form,
                     existing |-> IF e \in DOMAIN mEntries[s]
                                    THEN <<mEntries[s][e]>> ELSE <<>>]}]
  /\ UNCHANGED <<storeVars, mPhase, mDate, mForm, mEntries, adminVars, aggVars,
                 badgeVars, reportVars, statusVars, exportVars, masterVars, otherPageVars>>

\* handleSave from the await on, lines 172-231: the store takes or rejects
\* the write, then the local entry, the message and finally setSaving(null)
SaveSettles(s, req, ok) ==
  /\ req \in mPending[s]
  /\ mPending' = [mPending EXCEPT ![s] = @ \ {req}]
  /\ mSaving' = [mSaving EXCEPT ![s] = NoExec]
  /\ LET e         == req.exec
         newTarget == ParseOrZero(req.form.target)
         newAch    == ParseOrZero(req.form.ach)
         newCash   == ParseOrZero(req.form.cash)
     IN
     IF req.existing # <<>>
       THEN
         LET existing   == req.existing[1]
             newHistory == OwnerHistory(existing, newTarget, newAch, newCash)
             newEntry   == [existing EXCEPT !.targetQty = newTarget, !.achQty = newAch,
                                            !.cashQty = newCash,
                                            !.remarks = req.form.remarks,
                                            !.editHistory = newHistory]
         IN
         /\ IF ok /\ existing.docId \in DOMAIN store
              THEN /\ writes < MaxWrites
                   /\ writes' = writes + 1
                   /\ store' = [store EXCEPT ![existing.docId] =
                          [@ EXCEPT !.branchId = BranchId, !.executiveId = e,
                                    !.date = mDate[s],
                                    !.targetQty = newTarget, !.achQty = newAch,
                                    !.cashQty = newCash, !.remarks = req.form.remarks,
                                    !.editHistory = newHistory]]
                   /\ mEntries' = [mEntries EXCEPT ![s] =
                          [x \in DOMAIN mEntries[s] \cup {e} |->
                             IF x = e THEN newEntry ELSE mEntries[s][x]]]
                   /\ mError' = [mError EXCEPT ![s] = NoExec]
              ELSE /\ mError' = [mError EXCEPT ![s] = e]
                   /\ UNCHANGED <<store, writes, mEntries>>
         /\ UNCHANGED nextId
       ELSE
         IF ok
           THEN /\ nextId <= MaxDocs
                /\ writes < MaxWrites
                /\ writes' = writes + 1
                /\ store' = [i \in DOMAIN store \cup {nextId} |->
                               IF i = nextId
                                 THEN NewDoc(e, mDate[s], newTarget, newAch, newCash,
                                             req.form.remarks)
                                 ELSE store[i]]
                /\ nextId' = nextId + 1
                /\ mEntries' = [mEntries EXCEPT ![s] =
                       [x \in DOMAIN mEntries[s] \cup {e} |->
                          IF x = e
                            THEN [docId |-> nextId, executiveId |-> e,
                                  targetQty |-> newTarget, achQty |-> newAch,
                                  cashQty |-> newCash, remarks |-> req.form.remarks,
                                  editHistory |-> <<>>]
                            ELSE mEntries[s][x]]]
                /\ mError' = [mError EXCEPT ![s] = NoExec]
           ELSE /\ mError' = [mError EXCEPT ![s] = e]
                /\ UNCHANGED <<store, nextId, writes, mEntries>>
  /\ UNCHANGED <<mPhase, mDate, mForm, adminVars, aggVars,
                 badgeVars, reportVars, statusVars, exportVars, masterVars, otherPageVars>>

\* the manager opens the Entry page once; its saves settle in any order
EntryMount(ok) ==
  /\ mPhase["m1"] = "closed"
  /\ FetchData("m1", ok)

SomeSaveSettles ==
  \E req \in mPending["m1"], ok \in BOOLEAN : SaveSettles("m1", req, ok)

NextSaving ==
  \/ \E ok \in BOOLEAN : EntryMount(ok)
  \/ \E e \in Execs, form \in EditForms : SaveStart("m1", e, form)
  \/ SomeSaveSettles

\* every request the store holds is answered, with an acceptance or a failure
SpecSaving == Init /\ [][NextSaving]_vars /\ WF_vars(SomeSaveSettles)

\* C25: whenever a call of Entry.handleSave has set the saving flag, the flag
\* is eventually null again, whether the save succeeds, the store fails, or
\* the executive has no form data.
SavingFlagEventuallyReset ==
  \A s \in Sessions : (mSaving[s] # NoExec) ~> (mSaving[s] = NoExec)

\* C26: while the manager's page holds an entry whose document is no longer
\* stored (the admin deleted it after the page loaded), a save of that
\* executive fails with 'Failed to save', creates no document and changes
\* nothing in the store, and the entry stays in the page's map, so the same
\* holds for every later save until the page is loaded again.
SaveOfDeletedEntryKeepsFailing ==
  [][\A s \in Sessions, e \in Execs :
       (e \in DOMAIN mEntries[s] /\ mEntries[s][e].docId \notin DOMAIN store)
       => /\ \A form \in Forms :
               HandleSave(s, e, form, TRUE)
               => /\ mError'[s] = e
                  /\ store' = store
                  /\ nextId' = nextId
                  /\ mEntries' = mEntries
          /\ \/ /\ e \in DOMAIN mEntries'[s]
                /\ mEntries'[s][e] = mEntries[s][e]
                /\ mEntries[s][e].docId \notin DOMAIN store'
             \/ \E ok \in BOOLEAN : FetchData(s, ok)]_vars

\* C26 witness: the manager's save of an entry the admin deleted has failed;
\* the entry is still in the page's map and the store holds no entry of
\* that executive
SaveOfDeletedEntryFailed ==
  \E e \in Execs :
    /\ mError["m1"] = e
    /\ e \in DOMAIN mEntries["m1"]
    /\ mEntries["m1"][e].docId \notin DOMAIN store
    /\ mEntries["m1"][e].docId < nextId
    /\ \A i \in DOMAIN store : store[i].executiveId # e
    /\ \A k \in 1..Len(aCollections) : aCollections[k].id # mEntries["m1"][e].docId

\* ------------------------------------ Admin page: mount and window fetches
\* branchArr.sort((a, b) => a.name.localeCompare(b.name)), Dashboard.tsx line 227
RECURSIVE InsertBranch(_, _)
InsertBranch(sorted, x) ==
  IF sorted = <<>> THEN <<x>>
  ELSE IF NameRank(x.name) < NameRank(Head(sorted).name) THEN <<x>> \o sorted
       ELSE <<Head(sorted)>> \o InsertBranch(Tail(sorted), x)

RECURSIVE SortBranches(_, _)
SortBranches(items, sorted) ==
  IF items = <<>> THEN sorted
  ELSE SortBranches(Tail(items), InsertBranch(sorted, Head(items)))

\* the sequence without its k-th item
WithoutItem(seq, k) == SubSeq(seq, 1, k - 1) \o SubSeq(seq, k + 1, Len(seq))

\* the first render of the Admin page and its mount effect: state
\* initialisers, fetchMasterData called
AdminOpens ==
  /\ aPhase = "closed"
  /\ aPhase' = "ready"
  /\ aStart' = Today
  /\ aEnd' = Today
  /\ aCollections' = <<>>
  /\ aEditingId' = NoId
  /\ aAlert' = ""
  /\ aBranchList' = <<>>
  /\ aLoading' = TRUE
  /\ aMaster' = "pending"
  /\ UNCHANGED <<storeVars, mgrVars, aggVars, badgeVars, reportVars, statusVars,
                 selectedBranch, exported, generated, masterVars,
                 sendingTelegram, telegram, mPending, routeVars,
                 aBuild, aInFlight, aLastIssued, aFetchError>>

\* what fetchMasterData meets: both reads resolve, the Branches read
\* rejects, or the executives read rejects after setBranches
MasterOutcomes == {"ok", "branchesFail", "execsFail"}

\* fetchMasterData settles and the .then of the mount effect runs; its
\* fetchCollections is the one of the first render (startDate = endDate =
\* today); Dashboard.tsx has the else branch, Admin.tsx has none
MasterSettles(outcome) ==
  /\ aMaster = "pending"
  /\ aMaster' = IF outcome = "ok" THEN "ok" ELSE "failed"
  /\ aBranchList' = IF outcome = "branchesFail" THEN aBranchList
                    ELSE SortBranches(BranchList(1), <<>>)
  /\ IF outcome = "ok" /\ BranchList(1) # <<>>
       THEN /\ aInFlight' = Append(aInFlight, [start |-> Today, end |-> Today])
            /\ aLastIssued' = <<Today, Today>>
            /\ aLoading' = TRUE
       ELSE /\ aLoading' = IF aBuild = "Dashboard.tsx" THEN FALSE ELSE aLoading
            /\ UNCHANGED <<aInFlight, aLastIssued>>
  /\ UNCHANGED <<storeVars, mgrVars, adminVars, aggVars, badgeVars, reportVars,
                 statusVars, selectedBranch, exported, generated, masterVars,
                 sendingTelegram, telegram, mPending, routeVars, aBuild, aFetchError>>

\* a date input changes and the effect on [startDate, endDate] runs:
\* fetchCollections for the new window when the branches map is not empty
SetDates(start, end) ==
  /\ aPhase = "ready"
  /\ <<start, end>> # <<aStart, aEnd>>
  /\ start = aStart \/ end = aEnd
  /\ aStart' = start
  /\ aEnd' = end
  /\ IF aBranchList # <<>>
       THEN /\ Len(aInFlight) < MaxPending
            /\ aInFlight' = Append(aInFlight, [start |-> start, end |-> end])
            /\ aLastIssued' = <<start, end>>
            /\ aLoading' = TRUE
       ELSE UNCHANGED <<aInFlight, aLastIssued, aLoading>>
  /\ UNCHANGED <<storeVars, mgrVars, aPhase, aCollections, aEditingId, aAlert, aggVars,
                 badgeVars, reportVars, statusVars, exportVars, masterVars,
                 sendingTelegram, telegram, mPending, routeVars, aBuild, aMaster, aFetchError>>

\* the k-th pending fetchCollections call settles: setCollections with the
\* rows of its own window, or the catch; finally setLoading(false)
CollectionsSettle(k, ok) ==
  /\ k \in 1..Len(aInFlight)
  /\ aInFlight' = WithoutItem(aInFlight, k)
  /\ aCollections' = IF ok THEN WindowQuery(aInFlight[k].start, aInFlight[k].end)
                     ELSE aCollections
  /\ aFetchError' = (aFetchError \/ ~ok)
  /\ aLoading' = FALSE
  /\ UNCHANGED <<storeVars, mgrVars, aPhase, aStart, aEnd, aEditingId, aAlert, aggVars,
                 badgeVars, reportVars, statusVars, exportVars, masterVars,
                 sendingTelegram, telegram, mPending, routeVars, aBuild, aMaster, aLastIssued>>

\* the store and the Branches collection when the admin opens the page
InitFetch ==
  /\ \E n \in 0..MaxDocs : store \in [1..n -> TodayEntries]
  /\ nextId = Cardinality(DOMAIN store) + 1
  /\ writes = 0
  /\ PagesClosed
  /\ AggIdle
  /\ BadgeIdle
  /\ ReportIdle
  /\ branches \in BranchStores
  /\ statusUpdate = NotCalled
  /\ ExportIdle
  /\ MasterIdle
  /\ sendingTelegram = FALSE
  /\ telegram = NotCalled
  /\ mPending = [s \in Sessions |-> {}]
  /\ aBuild \in {"Admin.tsx", "Dashboard.tsx"}
  /\ aLoading = TRUE
  /\ aMaster = "none"
  /\ aInFlight = <<>>
  /\ aLastIssued = <<>>
  /\ aFetchError = FALSE
  /\ RouteIdle

MasterAnswers == \E outcome \in MasterOutcomes : MasterSettles(outcome)

CollectionsAnswer ==
  \E k \in 1..MaxPending, ok \in BOOLEAN : CollectionsSettle(k, ok)

NextFetch ==
  \/ AdminOpens
  \/ MasterAnswers
  \/ \E start \in StatusDates, end \in StatusDates : SetDates(start, end)
  \/ CollectionsAnswer

\* every read the page has issued is answered
SpecFetch ==
  InitFetch /\ [][NextFetch]_vars /\ WF_vars(MasterAnswers) /\ WF_vars(CollectionsAnswer)

\* C27: once every fetchCollections call has settled, none of them rejected,
\* and the latest call was made for the selected window, the collections
\* shown are the rows of the selected (startDate, endDate) window, in
\* whatever order the answers arrived.
ShownRowsAreOfSelectedWindow ==
  ( /\ aPhase = "ready"
    /\ aMaster = "ok"
    /\ aInFlight = <<>>
    /\ ~aFetchError
    /\ aLastIssued = <<aStart, aEnd>> )
  => aCollections = WindowQuery(aStart, aEnd)

\* C28: after the Admin page mounts, loading is eventually false, whether
\* the reads succeed, a read fails, or the branch list is empty.
LoadingEventuallyFalse ==
  (aPhase = "ready") ~> (aLoading = FALSE)

\* the store holds an entry of branch b dated today
StoreHasTodayEntry(b) ==
  \E i \in DOMAIN store : store[i].branchId = b /\ store[i].date = Today

\* C29: on the Admin page, whatever window is selected and after any admin
\* edit or delete, the today's-status summary marks a branch as entered
\* (hasEntry) exactly when the store holds an entry of that branch dated today.
TodayStatusMatchesStore ==
  aPhase = "ready" =>
    \A k \in 1..Len(aBranchList) :
      getBranchSummary[k].hasEntry <=> StoreHasTodayEntry(aBranchList[k].id)

\* ----------------------------------------------- App: the route guards
ADMIN_EMAIL == "admin@card.com"

\* the accounts that sign in
Users == {ADMIN_EMAIL, "m1@card.com", "m2@card.com"}

\* the managerEmail field of the Branches documents
ManagerEmailOf == [b \in {BranchIds[1], BranchIds[2]} |->
                     IF b = BranchIds[1] THEN "m1@card.com" ELSE "m2@card.com"]

\* query(Branches, where('managerEmail', '==', email)): the document ids
BranchQuery(email) == { b \in DOMAIN branches : ManagerEmailOf[b] = email }

Paths == {"/login", "/dashboard", "/entry", "/executives", "/admin", "/other"}

\* const isAdmin = user?.email === ADMIN_EMAIL
isAdmin(u) == u = ADMIN_EMAIL

\* where the Route element of path p navigates to for user u and branch
\* info bi; p itself when the element renders a page
NavigateTo(p, u) ==
  CASE p = "/login" -> IF u # NoUser THEN (IF isAdmin(u) THEN "/admin" ELSE "/dashboard")
                       ELSE p
    [] p \in {"/dashboard", "/entry", "/executives"} ->
         IF u = NoUser THEN "/login" ELSE IF isAdmin(u) THEN "/admin" ELSE p
    [] p = "/admin" ->
         IF u = NoUser THEN "/login" ELSE IF isAdmin(u) THEN p ELSE "/dashboard"
    [] OTHER -> IF u # NoUser THEN (IF isAdmin(u) THEN "/admin" ELSE "/dashboard")
                ELSE "/login"

\* the location after the router has followed every <Navigate>
RECURSIVE Routed(_, _)
Routed(p, u) == IF NavigateTo(p, u) = p THEN p ELSE Routed(NavigateTo(p, u), u)

\* the page a Route element renders at a location that does not navigate,
\* with the branchId prop it passes
Element(p, u, bi) ==
  CASE p = "/login" -> [page |-> "Login", branchId |-> NoBranch]
    [] p = "/admin" -> [page |-> "Admin", branchId |-> NoBranch]
    [] OTHER -> IF bi # NoBranch
                  THEN [page |-> CASE p = "/dashboard" -> "Dashboard"
                                   [] p = "/entry" -> "Entry"
                                   [] OTHER -> "Executives",
                        branchId |-> bi]
                  ELSE [page |-> "LoadingBranchInfo", branchId |-> NoBranch]

\* the router is rendered: neither the loading screen nor the error screen
RouterShown(u, ld, be) == ~ld /\ ~(u # NoUser /\ ~isAdmin(u) /\ be)

\* what App renders
Screen ==
  IF loading THEN [page |-> "Loading", branchId |-> NoBranch]
  ELSE IF user # NoUser /\ ~isAdmin(user) /\ branchError
         THEN [page |-> "NoBranchAssigned", branchId |-> NoBranch]
         ELSE Element(Routed(path, user), user, branchInfo)

\* the location after a render
LocationAfter(p, u, ld, be) == IF RouterShown(u, ld, be) THEN Routed(p, u) ELSE p

\* the onAuthStateChanged callback up to its await: a sign-in, a sign-out
\* or the first report of the auth state
AuthStateChanged(u) ==
  /\ u # user \/ (loading /\ lookups = <<>>)
  /\ u = NoUser \/ user = NoUser
  /\ user' = u
  /\ branchError' = FALSE
  /\ IF u # NoUser /\ u # ADMIN_EMAIL
       THEN /\ Len(lookups) < MaxPending
            /\ lookups' = Append(lookups, u)
            /\ UNCHANGED <<branchInfo, loading>>
       ELSE /\ branchInfo' = NoBranch
            /\ loading' = FALSE
            /\ UNCHANGED lookups
  /\ path' = LocationAfter(path, user', loading', branchError')
  /\ UNCHANGED <<storeVars, mgrVars, adminVars, aggVars, badgeVars, reportVars,
                 statusVars, exportVars, masterVars, sendingTelegram, telegram,
                 mPending, fetchVars>>

\* the k-th pending lookup settles and its callback runs to the end
LookupSettles(k, ok) ==
  /\ k \in 1..Len(lookups)
  /\ lookups' = WithoutItem(lookups, k)
  /\ IF ok /\ BranchQuery(lookups[k]) # {}
       THEN /\ branchInfo' = CHOOSE b \in BranchQuery(lookups[k]) : TRUE
            /\ UNCHANGED branchError
       ELSE /\ branchError' = TRUE
            /\ branchInfo' = NoBranch
  /\ loading' = FALSE
  /\ path' = LocationAfter(path, user, loading', branchError')
  /\ UNCHANGED <<storeVars, mgrVars, adminVars, aggVars, badgeVars, reportVars,
                 statusVars, exportVars, masterVars, sendingTelegram, telegram,
                 mPending, fetchVars, user>>

\* the visitor opens a location
GoTo(p) ==
  /\ p # path
  /\ path' = LocationAfter(p, user, loading, branchError)
  /\ path' # path
  /\ UNCHANGED <<storeVars, mgrVars, adminVars, aggVars, badgeVars, reportVars,
                 statusVars, exportVars, masterVars, sendingTelegram, telegram,
                 mPending, fetchVars, user, branchInfo, loading, branchError, lookups>>

InitRoutes ==
  /\ store = <<>>
  /\ nextId = 1
  /\ writes = 0
  /\ PagesClosed
  /\ AggIdle
  /\ BadgeIdle
  /\ ReportIdle
  /\ branches \in BranchStores
  /\ statusUpdate = NotCalled
  /\ ExportIdle
  /\ MasterIdle
  /\ sendingTelegram = FALSE
  /\ telegram = NotCalled
  /\ mPending = [s \in Sessions |-> {}]
  /\ aBuild = "Admin.tsx"
  /\ aLoading = TRUE
  /\ aMaster = "none"
  /\ aInFlight = <<>>
  /\ aLastIssued = <<>>
  /\ aFetchError = FALSE
  /\ user = NoUser
  /\ branchInfo = NoBranch
  /\ loading = TRUE
  /\ branchError = FALSE
  /\ lookups = <<>>
  /\ path \in Paths

NextRoutes ==
  \/ \E u \in Users \cup {NoUser} : AuthStateChanged(u)
  \/ \E k \in 1..MaxPending, ok \in BOOLEAN : LookupSettles(k, ok)
  \/ \E p \in Paths : GoTo(p)

SpecRoutes == InitRoutes /\ [][NextRoutes]_vars

\* the branch of the signed-in manager, as the Branches collection has it
BranchOfUser ==
  IF BranchQuery(user) = {} THEN NoBranch ELSE CHOOSE b \in BranchQuery(user) : TRUE

\* C30: at every location and in every authentication state, a visitor who
\* is not signed in sees only the login page (or the start-up loading
\* screen), the Admin page is rendered only for the admin account, Dashboard,
\* Entry and Executives are rendered only for a non-admin user whose branch
\* exists and always with that branch's id, and a non-admin user whose
\* lookup found no branch sees only the 'No Branch Assigned' screen.
RouteGuards ==
  /\ user = NoUser => Screen.page \in {"Login", "Loading"}
  /\ Screen.page = "Admin" => user = ADMIN_EMAIL
  /\ Screen.page \in {"Dashboard", "Entry", "Executives"} =>
       /\ user \notin {NoUser, ADMIN_EMAIL}
       /\ BranchOfUser # NoBranch
       /\ Screen.branchId = BranchOfUser
  /\ ( /\ user \notin {NoUser, ADMIN_EMAIL}
       /\ lookups = <<>>
       /\ BranchOfUser = NoBranch ) => Screen.page = "NoBranchAssigned"

====
